---- MODULE Spec2Model ----
(***************************************************************************)
(* Model of the ScreenScraper scraping engine of script.ael.screenscraper *)
(* (src/resources/lib/scraper.py, class ScreenScraper).                    *)
(*                                                                         *)
(* One scraper instance is driven by one sequential caller.  Times are     *)
(* integers in milliseconds.  A Python string is a sequence of tokens      *)
(* [k, v]: the scheme/host/path prefix of a URL is the token "http", a     *)
(* query parameter key=value is the token [k |-> key, v |-> value], the    *)
(* separator is the token "&", any other text is a token "txt".            *)
(***************************************************************************)
EXTENDS Integers, Sequences, FiniteSets, TLC

(***************************************************************************)
(* Bounds of the model.                                                    *)
(***************************************************************************)
MaxCalls == 2          \* public operations started in one run
Max429 == 3            \* HTTP 429 answers the provider gives in one run
MaxEntries == 2         \* entries of a localized field, media of a record
MaxParams == 3          \* query parameters of a URL given to the redaction
MaxIdle == 1000        \* idle time passes while the last request is younger

(***************************************************************************)
(* Program constants.                                                      *)
(***************************************************************************)
RETRY_THRESHOLD == 2   \* Scraper.RETRY_THRESHOLD (base class, value not in src)
API_WAIT_MS == 2000    \* self._wait_for_API_request(2000)
BACKOFF_SECONDS == 120 \* amount_seconds = 120*(retry+1)
NoStatus == 0          \* http_code of a request that got no HTTP answer

(***************************************************************************)
(* Strings as token sequences.                                             *)
(***************************************************************************)
Tok(k, v) == [k |-> k, v |-> v]
AMP == Tok("&", "")
HTTP == Tok("http", "")
Txt(s) == << Tok("txt", s) >>

\* A media URL as the provider sends it: it carries the credentials.
URL_media_cred ==
    << HTTP, Tok("devid", "dev"), AMP, Tok("devpassword", "dpw"), AMP,
       Tok("softname", "AEL"), AMP, Tok("ssid", "user"), AMP,
       Tok("sspassword", "upw"), AMP, Tok("media", "box-2D") >>
\* A URL without credentials.
URL_media_plain == << HTTP, Tok("media", "ss") >>

(***************************************************************************)
(* _clean_URL_for_log: twelve re.sub calls in source order.                *)
(***************************************************************************)
RECURSIVE SubAmp(_, _)
\* re.sub('key=[^&]*&', '', s): every parameter key followed by '&' goes,
\* together with that '&'.
SubAmp(key, s) ==
    IF s = << >> THEN << >>
    ELSE IF s[1].k = key /\ Len(s) >= 2 /\ s[2] = AMP
         THEN SubAmp(key, SubSeq(s, 3, Len(s)))
         ELSE << s[1] >> \o SubAmp(key, Tail(s))

\* re.sub('key=[^&]*$', '', s): the parameter key at the end of the string.
SubEnd(key, s) ==
    IF s # << >> /\ s[Len(s)].k = key THEN SubSeq(s, 1, Len(s) - 1) ELSE s

\* The values that have a dollar sign in them.
DollarValues == { "p$w" }

\* re.sub('key=[^$]*$', '', s): from the first parameter key that has no
\* dollar sign after it to the end of the string ([^$] is any character but
\* a literal dollar sign, '&' included).
SubToEnd(key, s) ==
    LET starts == { j \in 1..Len(s) :
                      /\ s[j].k = key
                      /\ \A h \in j..Len(s) : s[h].v \notin DollarValues }
    IN  IF starts # { }
        THEN SubSeq(s, 1, (CHOOSE j \in starts : \A h \in starts : j <= h) - 1)
        ELSE s

\* One assignment 'clean_URL = re.sub(...)': the value is computed once
\* and then held.
Bind(F(_), x) == CHOOSE y \in { F(v) : v \in { x } } : TRUE

_clean_URL_for_log(url) ==
    LET u1  == Bind(LAMBDA s : SubAmp("devid", s), url)
        u2  == Bind(LAMBDA s : SubEnd("devid", s), u1)
        u3  == Bind(LAMBDA s : SubAmp("devpassword", s), u2)
        u4  == Bind(LAMBDA s : SubToEnd("devpassword", s), u3)
        u5  == Bind(LAMBDA s : SubAmp("softname", s), u4)
        u6  == Bind(LAMBDA s : SubEnd("softname", s), u5)
        u7  == Bind(LAMBDA s : SubAmp("output", s), u6)
        u8  == Bind(LAMBDA s : SubEnd("output", s), u7)
        u9  == Bind(LAMBDA s : SubAmp("ssid", s), u8)
        u10 == Bind(LAMBDA s : SubEnd("ssid", s), u9)
        u11 == Bind(LAMBDA s : SubAmp("sspassword", s), u10)
        u12 == Bind(LAMBDA s : SubEnd("sspassword", s), u11)
    IN  u12

\* item.startswith('http')
StartsWithHttp(s) == s # << >> /\ s[1] = HTTP

(***************************************************************************)
(* Provider data.  A game record (jeu_dic) has an integer id, a list of    *)
(* names, a list of ROMs and a list of media entries; 'region' is an       *)
(* optional key of a media entry.  The second game has a genre list, which *)
(* is empty.                                                               *)
(***************************************************************************)
Game_Sonic ==
    [ id    |-> 3,
      noms  |-> << [region |-> "wor", text |-> Txt("Sonic The Hedgehog")],
                   [region |-> "jp",  text |-> Txt("Sonikku")] >>,
      roms  |-> << [romfilename |-> Txt("Sonic (World).zip")] >>,
      medias |-> << [type |-> "box-2D", region |-> "wor",
                     url |-> URL_media_cred, format |-> "png"],
                    [type |-> "ss", url |-> URL_media_plain, format |-> "jpg"] >> ]

Game_Tetris ==
    [ id    |-> 5,
      noms  |-> << [region |-> "us", text |-> Txt("Tetris")] >>,
      genres |-> << >>,
      roms  |-> << >>,
      medias |-> << [type |-> "manuel", region |-> "us",
                     url |-> << HTTP, Tok("media", "manuel"), AMP,
                                Tok("sspassword", "upw") >>,
                     format |-> "pdf"] >> ]

Games == { Game_Sonic, Game_Tetris }

(***************************************************************************)
(* A response body (page_data_raw) is JSON text for a game record that may *)
(* carry defects: "],\n\t\t}" and "\t\t},\n\t\t}" are the two trailing     *)
(* commas the fetcher knows how to repair, "bad" is any other defect.      *)
(***************************************************************************)
DEFECT_1 == "],\\n\\t\\t}"
DEFECT_2 == "\\t\\t},\\n\\t\\t}"
DEFECT_OTHER == "bad"
\* A trailing comma before the closing brace of the second level, which is
\* indented with one tab: neither repair pattern occurs in it.
DEFECT_LEVEL_1 == "},\\n\\t}"
DefectSets ==
    { {}, {DEFECT_1}, {DEFECT_2}, {DEFECT_1, DEFECT_2}, {DEFECT_OTHER},
      {DEFECT_LEVEL_1} }
Bodies ==
    [ jeu : { Game_Sonic }, defects : DefectSets ]
    \cup [ jeu : { Game_Tetris }, defects : { {} } ]
NoBody == [ jeu |-> Game_Tetris, defects |-> {DEFECT_OTHER} ]

\* json.loads(text): raises unless the text has no defect.
json_loads_ok(body) == body.defects = {}
json_loads(body) == [ none |-> FALSE, response |-> [ jeu |-> body.jeu ] ]
None_json == [ none |-> TRUE ]
\* page_data_raw.replace(old, new) for the two repair patterns.
str_replace(body, defect) == [ body EXCEPT !.defects = @ \ {defect} ]

(***************************************************************************)
(* net.get_URL(url) returns (page_data_raw, http_code).  An HTTP error     *)
(* status carries no usable body; a request that got no HTTP answer        *)
(* (connection error, timeout) returns no body and either no status or,   *)
(* as the comment at the raw-is-None test expects, the status 200.         *)
(***************************************************************************)
ErrorCodes == { 400, 404, 429, 430, 500 }
Outcomes ==
    { [code |-> 200, has_body |-> TRUE, body |-> b] : b \in Bodies }
    \cup { [code |-> c, has_body |-> FALSE, body |-> NoBody] : c \in ErrorCodes }
    \cup { [code |-> c, has_body |-> FALSE, body |-> NoBody] : c \in {NoStatus, 200} }

\* Durations (ms) of the blocking calls the engine does not control.
HttpDurations == { 100 }
DialogDurations == { 60000, 400000 }
IdleDurations == { 3000 }

(***************************************************************************)
(* Caller inputs.                                                          *)
(***************************************************************************)
\* AEL platform long names with the result of platforms.get_AEL_platform.
AEL_platforms ==
    [ p \in { "Sega Genesis", "Sony PlayStation" } |->
        IF p = "Sega Genesis"
        THEN [ compact_name |-> "genesis", aliasof |-> "megadrive" ]
        ELSE [ compact_name |-> "psx", aliasof |-> "None" ] ]
Platforms == DOMAIN AEL_platforms

\* The two entries of the table that the platforms above reach.
AEL_compact_platform_Screenscraper_mapping ==
    [ c \in { "megadrive", "psx" } |-> IF c = "megadrive" THEN 1 ELSE 57 ]
DEFAULT_PLAT_SCREENSCRAPER == 0

convert_AEL_platform_to_ScreenScraper(platform_long_name) ==
    LET matching_platform == AEL_platforms[platform_long_name]
        mapping == AEL_compact_platform_Screenscraper_mapping
    IN  IF matching_platform.compact_name \in DOMAIN mapping
        THEN mapping[matching_platform.compact_name]
        ELSE IF matching_platform.aliasof # "None"
                /\ matching_platform.aliasof \in DOMAIN mapping
             THEN mapping[matching_platform.aliasof]
             ELSE DEFAULT_PLAT_SCREENSCRAPER

ISO_platform_set ==
    { "Fujitsu FM Towns Marty", "NEC PC Engine CDROM2", "NEC TurboGrafx CD",
      "Nintendo GameCube", "Nintendo Wii", "Sega Dreamcast", "Sega Saturn",
      "Sony PlayStation", "Sony PlayStation 2", "Sony PlayStation Portable" }

\* The ROM files the caller scrapes, each with its AEL platform.
ROMs == { [ base |-> "Sonic.zip", platform |-> "Sega Genesis" ],
          [ base |-> "FF7.iso",   platform |-> "Sony PlayStation" ] }
CacheKeys == { rom.base : rom \in ROMs }
NoKey == ""

\* How get_candidates obtains the checksums of the ROM: rom_checksums_FN is
\* None, the debug checksums are set, or _get_SS_checksum computes them or
\* fails to.
ChecksumCases == { "no_file", "debug", "computed", "failed" }

\* kodi.new_status_dic(msg)
new_status_dic(msg) == [ status |-> TRUE, dialog |-> "notify", msg |-> msg ]
OK_MSG == "Scraper test was OK"

(***************************************************************************)
(* Engine helpers.                                                         *)
(***************************************************************************)
KODI_MESSAGE_DIALOG == "dialog"

\* Scraper._handle_error / Scraper._handle_exception: the error is reported
\* through the status descriptor.
_handle_error(status_dic, user_msg) ==
    [ status |-> FALSE, dialog |-> KODI_MESSAGE_DIALOG, msg |-> user_msg ]

CodeStr(http_code) == IF http_code = NoStatus THEN "None" ELSE ToString(http_code)
BadStatusMsg(http_code) == "Bad HTTP status code " \o CodeStr(http_code)
NETWORK_MSG == "Network error/exception in net_get_URL()"
DECODE_MSG == "Error decoding JSON data from ScreenScraper (fixed version)."
CHECKSUM_MSG == "Error computing file checksums."
CREDENTIALS_MSG == "AEL requires your ScreenScraper user name and password."

\* Variant of _wait_for_API_request that returns at once.
_wait_for_API_request_no_sleep(clock, last_call, ms) == clock

\* Scraper._wait_for_API_request(ms): the clock value at which the call
\* returns.  It blocks until ms have passed since the last request.
_wait_for_API_request(clock, last_call, ms) ==
    IF clock - last_call < ms THEN last_call + ms ELSE clock

\* Variant of amount_seconds that multiplies by the attempt number itself.
amount_seconds_from_zero(retry) == BACKOFF_SECONDS * retry

\* amount_seconds of the backoff after a 429 answered to attempt 'retry'.
amount_seconds(retry) == BACKOFF_SECONDS * (retry + 1)

\* Variant of decode_JSON whose second repair starts from the first one.
decode_JSON_cumulative(page_data_raw) ==
    LET try1 == str_replace(page_data_raw, DEFECT_1)
        try2 == str_replace(try1, DEFECT_2)
    IN  IF json_loads_ok(page_data_raw)
        THEN [ ok |-> TRUE, json |-> json_loads(page_data_raw), passes |-> 0 ]
        ELSE IF json_loads_ok(try1)
        THEN [ ok |-> TRUE, json |-> json_loads(try1), passes |-> 1 ]
        ELSE IF json_loads_ok(try2)
        THEN [ ok |-> TRUE, json |-> json_loads(try2), passes |-> 2 ]
        ELSE [ ok |-> FALSE, json |-> None_json, passes |-> 2 ]

\* The three decoding attempts of _retrieve_URL_as_JSON on a body.  passes
\* counts the repairs tried; both repairs start from the raw body.
decode_JSON(page_data_raw) ==
    LET try1 == str_replace(page_data_raw, DEFECT_1)
        try2 == str_replace(page_data_raw, DEFECT_2)
    IN  IF json_loads_ok(page_data_raw)
        THEN [ ok |-> TRUE, json |-> json_loads(page_data_raw), passes |-> 0 ]
        ELSE IF json_loads_ok(try1)
        THEN [ ok |-> TRUE, json |-> json_loads(try1), passes |-> 1 ]
        ELSE IF json_loads_ok(try2)
        THEN [ ok |-> TRUE, json |-> json_loads(try2), passes |-> 2 ]
        ELSE [ ok |-> FALSE, json |-> None_json, passes |-> 2 ]

\* Variant of classify_response in which the 404 branch is missing, so that
\* a 404 is reported like any other status that is not 200.
classify_response_no_404(o, retry, status_dic) ==
    IF o.code = 429 /\ retry < RETRY_THRESHOLD
    THEN [ next |-> "retry", json |-> None_json, dumped |-> FALSE, error |-> FALSE,
           status_dic |-> status_dic ]
    ELSE IF o.code # 200 \/ ~o.has_body
    THEN [ next |-> "return", json |-> None_json, dumped |-> FALSE, error |-> TRUE,
           status_dic |-> _handle_error(status_dic, BadStatusMsg(o.code)) ]
    ELSE LET d == decode_JSON(o.body)
         IN  IF d.ok
             THEN [ next |-> "return", json |-> d.json, dumped |-> FALSE,
                    error |-> FALSE, status_dic |-> status_dic ]
             ELSE [ next |-> "return", json |-> None_json, dumped |-> TRUE,
                    error |-> TRUE,
                    status_dic |-> _handle_error(status_dic, DECODE_MSG) ]

\* Variant of classify_response that also retries the daily-quota status.
classify_response_retry_430(o, retry, status_dic) ==
    IF o.code = 400
    THEN [ next |-> "return", json |-> None_json, dumped |-> FALSE, error |-> TRUE,
           status_dic |-> _handle_error(status_dic, BadStatusMsg(o.code)) ]
    ELSE IF o.code \in {429, 430} /\ retry < RETRY_THRESHOLD
    THEN [ next |-> "retry", json |-> None_json, dumped |-> FALSE, error |-> FALSE,
           status_dic |-> status_dic ]
    ELSE IF o.code = 404
    THEN [ next |-> "return", json |-> None_json, dumped |-> FALSE, error |-> FALSE,
           status_dic |-> status_dic ]
    ELSE IF o.code # 200
    THEN [ next |-> "return", json |-> None_json, dumped |-> FALSE, error |-> TRUE,
           status_dic |-> _handle_error(status_dic, BadStatusMsg(o.code)) ]
    ELSE IF ~o.has_body
    THEN [ next |-> "return", json |-> None_json, dumped |-> FALSE, error |-> TRUE,
           status_dic |-> _handle_error(status_dic, NETWORK_MSG) ]
    ELSE LET d == decode_JSON(o.body)
         IN  IF d.ok
             THEN [ next |-> "return", json |-> d.json, dumped |-> FALSE, error |-> FALSE,
                    status_dic |-> status_dic ]
             ELSE [ next |-> "return", json |-> None_json, dumped |-> TRUE, error |-> TRUE,
                    status_dic |-> _handle_error(status_dic, DECODE_MSG) ]

\* Variant of classify_response that retries while retry <= RETRY_THRESHOLD.
classify_response_one_more(o, retry, status_dic) ==
    IF o.code = 400
    THEN [ next |-> "return", json |-> None_json, dumped |-> FALSE, error |-> TRUE,
           status_dic |-> _handle_error(status_dic, BadStatusMsg(o.code)) ]
    ELSE IF o.code = 429 /\ retry <= RETRY_THRESHOLD
    THEN [ next |-> "retry", json |-> None_json, dumped |-> FALSE, error |-> FALSE,
           status_dic |-> status_dic ]
    ELSE IF o.code = 404
    THEN [ next |-> "return", json |-> None_json, dumped |-> FALSE, error |-> FALSE,
           status_dic |-> status_dic ]
    ELSE IF o.code # 200
    THEN [ next |-> "return", json |-> None_json, dumped |-> FALSE, error |-> TRUE,
           status_dic |-> _handle_error(status_dic, BadStatusMsg(o.code)) ]
    ELSE IF ~o.has_body
    THEN [ next |-> "return", json |-> None_json, dumped |-> FALSE, error |-> TRUE,
           status_dic |-> _handle_error(status_dic, NETWORK_MSG) ]
    ELSE LET d == decode_JSON(o.body)
         IN  IF d.ok
             THEN [ next |-> "return", json |-> d.json, dumped |-> FALSE, error |-> FALSE,
                    status_dic |-> status_dic ]
             ELSE [ next |-> "return", json |-> None_json, dumped |-> TRUE, error |-> TRUE,
                    status_dic |-> _handle_error(status_dic, DECODE_MSG) ]

\* Variant of classify_response that writes the two files also when the
\* request got no body.
classify_response_dump_no_body(o, retry, status_dic) ==
    IF o.code = 400
    THEN [ next |-> "return", json |-> None_json, dumped |-> FALSE, error |-> TRUE,
           status_dic |-> _handle_error(status_dic, BadStatusMsg(o.code)) ]
    ELSE IF o.code = 429 /\ retry < RETRY_THRESHOLD
    THEN [ next |-> "retry", json |-> None_json, dumped |-> FALSE, error |-> FALSE,
           status_dic |-> status_dic ]
    ELSE IF o.code = 404
    THEN [ next |-> "return", json |-> None_json, dumped |-> FALSE, error |-> FALSE,
           status_dic |-> status_dic ]
    ELSE IF o.code # 200
    THEN [ next |-> "return", json |-> None_json, dumped |-> FALSE, error |-> TRUE,
           status_dic |-> _handle_error(status_dic, BadStatusMsg(o.code)) ]
    ELSE IF ~o.has_body
    THEN [ next |-> "return", json |-> None_json, dumped |-> TRUE, error |-> TRUE,
           status_dic |-> _handle_error(status_dic, NETWORK_MSG) ]
    ELSE LET d == decode_JSON(o.body)
         IN  IF d.ok
             THEN [ next |-> "return", json |-> d.json, dumped |-> FALSE, error |-> FALSE,
                    status_dic |-> status_dic ]
             ELSE [ next |-> "return", json |-> None_json, dumped |-> TRUE, error |-> TRUE,
                    status_dic |-> _handle_error(status_dic, DECODE_MSG) ]

\* Variant of classify_response that takes a 404 answered to a retry for an
\* unknown status code.
classify_response_404_on_retry(o, retry, status_dic) ==
    IF o.code = 400
    THEN [ next |-> "return", json |-> None_json, dumped |-> FALSE, error |-> TRUE,
           status_dic |-> _handle_error(status_dic, BadStatusMsg(o.code)) ]
    ELSE IF o.code = 429 /\ retry < RETRY_THRESHOLD
    THEN [ next |-> "retry", json |-> None_json, dumped |-> FALSE, error |-> FALSE,
           status_dic |-> status_dic ]
    ELSE IF o.code = 404 /\ retry = 0
    THEN [ next |-> "return", json |-> None_json, dumped |-> FALSE, error |-> FALSE,
           status_dic |-> status_dic ]
    ELSE IF o.code # 200
    THEN [ next |-> "return", json |-> None_json, dumped |-> FALSE, error |-> TRUE,
           status_dic |-> _handle_error(status_dic, BadStatusMsg(o.code)) ]
    ELSE IF ~o.has_body
    THEN [ next |-> "return", json |-> None_json, dumped |-> FALSE, error |-> TRUE,
           status_dic |-> _handle_error(status_dic, NETWORK_MSG) ]
    ELSE LET d == decode_JSON(o.body)
         IN  IF d.ok
             THEN [ next |-> "return", json |-> d.json, dumped |-> FALSE, error |-> FALSE,
                    status_dic |-> status_dic ]
             ELSE [ next |-> "return", json |-> None_json, dumped |-> TRUE, error |-> TRUE,
                    status_dic |-> _handle_error(status_dic, DECODE_MSG) ]

\* The HTTP status dispatch of _retrieve_URL_as_JSON for one answer.
\* next is "retry" for the 429 branch and "return" otherwise; dumped tells
\* that the two diagnostic files are written.
classify_response(o, retry, status_dic) ==
    IF o.code = 400
    THEN [ next |-> "return", json |-> None_json, dumped |-> FALSE, error |-> TRUE,
           status_dic |-> _handle_error(status_dic, BadStatusMsg(o.code)) ]
    ELSE IF o.code = 429 /\ retry < RETRY_THRESHOLD
    THEN [ next |-> "retry", json |-> None_json, dumped |-> FALSE, error |-> FALSE,
           status_dic |-> status_dic ]
    ELSE IF o.code = 404
    THEN [ next |-> "return", json |-> None_json, dumped |-> FALSE, error |-> FALSE,
           status_dic |-> status_dic ]
    ELSE IF o.code # 200
    THEN [ next |-> "return", json |-> None_json, dumped |-> FALSE, error |-> TRUE,
           status_dic |-> _handle_error(status_dic, BadStatusMsg(o.code)) ]
    ELSE IF ~o.has_body
    THEN [ next |-> "return", json |-> None_json, dumped |-> FALSE, error |-> TRUE,
           status_dic |-> _handle_error(status_dic, NETWORK_MSG) ]
    ELSE LET d == decode_JSON(o.body)
         IN  IF d.ok
             THEN [ next |-> "return", json |-> d.json, dumped |-> FALSE, error |-> FALSE,
                    status_dic |-> status_dic ]
             ELSE [ next |-> "return", json |-> None_json, dumped |-> TRUE, error |-> TRUE,
                    status_dic |-> _handle_error(status_dic, DECODE_MSG) ]

\* _clean_JSON_for_dumping: every string of the tree that starts with
\* 'http' is replaced, in the tree itself, by its cleaned form.
clean_leaf(item) == IF StartsWithHttp(item) THEN _clean_URL_for_log(item) ELSE item

_clean_JSON_for_dumping(json_data) ==
    LET jeu == json_data.response.jeu
        cleaned ==
          [ jeu EXCEPT
              !.noms = [ i \in DOMAIN @ |-> [ @[i] EXCEPT !.text = clean_leaf(@) ] ],
              !.roms = [ i \in DOMAIN @ |->
                           [ @[i] EXCEPT !.romfilename = clean_leaf(@) ] ],
              !.medias = [ i \in DOMAIN @ |-> [ @[i] EXCEPT !.url = clean_leaf(@) ] ] ]
    IN  [ json_data EXCEPT !.response.jeu = cleaned ]

\* ScreenScraper._dump_json_debug: the tree the caller holds afterwards.
_dump_json_debug(dump_flag, json_data) ==
    IF ~dump_flag THEN json_data ELSE _clean_JSON_for_dumping(json_data)

\* The candidate dictionary built by _search_candidates_jeuInfos.
new_candidate(jeu_dic, platform, scraper_platform) ==
    [ id |-> ToString(jeu_dic.id),
      display_name |-> jeu_dic.noms[1].text,
      platform |-> platform,
      scraper_platform |-> scraper_platform,
      order |-> 1 ]

\* jeu_dic['roms'] = []
strip_roms(jeu_dic) == [ jeu_dic EXCEPT !.roms = << >> ]

\* Scraper._update_disk_cache(CACHE_INTERNAL, key, data)
_update_disk_cache(cache_map, key, data) ==
    [ k \in DOMAIN cache_map \cup { key } |-> IF k = key THEN data ELSE cache_map[k] ]

\* Return values of the public operations.
Ret_None == [ kind |-> "None", list |-> << >> ]
Ret_list(l) == [ kind |-> "list", list |-> l ]

\* Variant of before_fetch with the test on rom_checksums_FN inverted.
before_fetch_inverted(disabled, checksums) ==
    IF disabled THEN "disabled"
    ELSE IF checksums # "no_file" THEN "no_file"
    ELSE IF checksums = "failed" THEN "checksum_error"
    ELSE "fetch"

\* Variant of before_fetch without the test of scraper_disabled.
before_fetch_ignores_disabled(disabled, checksums) ==
    IF checksums = "no_file" THEN "no_file"
    ELSE IF checksums = "failed" THEN "checksum_error"
    ELSE "fetch"

\* Variant of before_fetch that goes on to the fetch when the checksums
\* could not be computed.
before_fetch_failed_goes_on(disabled, checksums) ==
    IF disabled THEN "disabled"
    ELSE IF checksums = "no_file" THEN "no_file"
    ELSE "fetch"

\* The early returns of get_candidates and _search_candidates_jeuInfos
\* before the fetch, in source order.
before_fetch(disabled, checksums) ==
    IF disabled THEN "disabled"
    ELSE IF checksums = "no_file" THEN "no_file"
    ELSE IF checksums = "failed" THEN "checksum_error"
    ELSE "fetch"

\* Variant of get_candidates_return without the test of the status flag.
get_candidates_return_unchecked(candidate_list, status_dic) == candidate_list

\* The end of get_candidates: None when the status descriptor reports an error.
get_candidates_return(candidate_list, status_dic) ==
    IF ~status_dic.status THEN Ret_None ELSE candidate_list

\* Variant of search_candidates_tail that stores the game record before it
\* looks at the status flag.
search_candidates_tail_store_first(json_data, status_dic, dump_flag, cache_map, key, platform, scraper_platform) ==
    IF json_data.none
    THEN [ ret |-> IF status_dic.status THEN Ret_list(<< >>) ELSE Ret_None,
           cache |-> cache_map, json_dumped |-> FALSE, written |-> FALSE ]
    ELSE LET held == _dump_json_debug(dump_flag, json_data)
             jeu_dic == held.response.jeu
             candidate == new_candidate(jeu_dic, platform, scraper_platform)
         IN  [ ret |-> IF status_dic.status THEN Ret_list(<< candidate >>)
                                            ELSE Ret_None,
               cache |-> _update_disk_cache(cache_map, key, strip_roms(jeu_dic)),
               json_dumped |-> dump_flag, written |-> TRUE ]

\* Variant of search_candidates_tail that lists the match twice.
search_candidates_tail_twice(json_data, status_dic, dump_flag, cache_map, key, platform, scraper_platform) ==
    IF ~status_dic.status
    THEN [ ret |-> Ret_None, cache |-> cache_map, json_dumped |-> FALSE,
           written |-> FALSE ]
    ELSE IF json_data.none
    THEN [ ret |-> Ret_list(<< >>), cache |-> cache_map, json_dumped |-> FALSE,
           written |-> FALSE ]
    ELSE LET held == _dump_json_debug(dump_flag, json_data)
             jeu_dic == held.response.jeu
             candidate == new_candidate(jeu_dic, platform, scraper_platform)
         IN  [ ret |-> Ret_list(<< candidate, candidate >>),
               cache |-> _update_disk_cache(cache_map, key, strip_roms(jeu_dic)),
               json_dumped |-> dump_flag, written |-> TRUE ]

\* Variant of search_candidates_tail without the test of the status flag
\* after the fetch.
search_candidates_tail_no_status_test(json_data, status_dic, dump_flag, cache_map, key, platform, scraper_platform) ==
    IF json_data.none
    THEN [ ret |-> Ret_list(<< >>), cache |-> cache_map, json_dumped |-> FALSE,
           written |-> FALSE ]
    ELSE LET held == _dump_json_debug(dump_flag, json_data)
             jeu_dic == held.response.jeu
             candidate == new_candidate(jeu_dic, platform, scraper_platform)
         IN  [ ret |-> Ret_list(<< candidate >>),
               cache |-> _update_disk_cache(cache_map, key, strip_roms(jeu_dic)),
               json_dumped |-> dump_flag, written |-> TRUE ]

\* The part of _search_candidates_jeuInfos after the fetch.  Yields the
\* candidate list, the cache and whether the debug JSON file was written.
search_candidates_tail(json_data, status_dic, dump_flag, cache_map, key, platform, scraper_platform) ==
    IF ~status_dic.status
    THEN [ ret |-> Ret_None, cache |-> cache_map, json_dumped |-> FALSE,
           written |-> FALSE ]
    ELSE IF json_data.none
    THEN [ ret |-> Ret_list(<< >>), cache |-> cache_map, json_dumped |-> FALSE,
           written |-> FALSE ]
    ELSE LET held == _dump_json_debug(dump_flag, json_data)
             jeu_dic == held.response.jeu
             candidate == new_candidate(jeu_dic, platform, scraper_platform)
         IN  [ ret |-> Ret_list(<< candidate >>),
               cache |-> _update_disk_cache(cache_map, key, strip_roms(jeu_dic)),
               json_dumped |-> dump_flag, written |-> TRUE ]


(***************************************************************************)
(* Metadata parsers.  A jeu_dic is a mapping whose keys may be missing;    *)
(* a text is a sequence of characters.  A parser returns a text or raises. *)
(***************************************************************************)
region_list ==
    << "wor", "eu", "us", "jp", "ss", "ame", "asi", "au", "bg", "br", "ca",
       "cl", "cn", "cus", "cz", "de", "dk", "fi", "fr", "gr", "hu", "il", "it",
       "kr", "kw", "mor", "nl", "no", "nz", "oce", "pe", "pl", "pt", "ru", "se",
       "sk", "sp", "tr", "tw", "uk" >>
language_list ==
    << "en", "es", "ja", "cz", "da", "de", "fi", "fr", "hu", "it", "ko", "nl",
       "no", "pl", "pt", "ru", "sk", "sv", "tr", "zh" >>

DEFAULT_META_TITLE == << "DEFAULT_META_TITLE" >>
DEFAULT_META_YEAR == << "DEFAULT_META_YEAR" >>
DEFAULT_META_GENRE == << "DEFAULT_META_GENRE" >>
DEFAULT_META_DEVELOPER == << "DEFAULT_META_DEVELOPER" >>
DEFAULT_META_NPLAYERS == << "DEFAULT_META_NPLAYERS" >>
DEFAULT_META_ESRB == << "DEFAULT_META_ESRB" >>
DEFAULT_META_PLOT == << "DEFAULT_META_PLOT" >>

\* An exception that leaves the parser and the public operation.
Raise(exception) == << "raise", exception >>
Raised(value) == Len(value) = 2 /\ value[1] = "raise"

\* 'for n in entries: if n[key] == value: return n': the index of the
\* first entry found by the loop, 0 when the loop ends without a return.
RECURSIVE for_n_in(_, _, _, _)
for_n_in(entries, key, value, i) ==
    IF i > Len(entries) THEN 0
    ELSE IF entries[i][key] = value THEN i
    ELSE for_n_in(entries, key, value, i + 1)

\* Variant of for_region_in that takes the first entry, in list order,
\* whose value is anywhere in the chain.
RECURSIVE for_region_in_list_order(_, _, _, _)
for_region_in_list_order(chain, entries, key, j) ==
    IF j > Len(entries) THEN 0
    ELSE IF \E c \in 1..Len(chain) : chain[c] = entries[j][key] THEN j
    ELSE for_region_in_list_order(chain, entries, key, j + 1)

\* 'for region in chain: for n in entries: ...': the index of the entry
\* at which the nested loops return, 0 when they end without a return.
RECURSIVE for_region_in(_, _, _, _)
for_region_in(chain, entries, key, j) ==
    IF j > Len(chain) THEN 0
    ELSE LET i == for_n_in(entries, key, chain[j], 1)
         IN  IF i > 0 THEN i ELSE for_region_in(chain, entries, key, j + 1)

\* The two searches of a localized parser: the preferred value first, then
\* the chain.  The index of the entry returned, 0 for none.
localized_entry(entries, key, preferred, chain) ==
    LET i == for_n_in(entries, key, preferred, 1)
    IN  IF i > 0 THEN i ELSE for_region_in(chain, entries, key, 1)

\* text[0:4]
first_four(text) ==
    SubSeq(text, 1, IF Len(text) < 4 THEN Len(text) ELSE 4)

_parse_meta_title(jeu_dic, user_region) ==
    IF "noms" \notin DOMAIN jeu_dic THEN DEFAULT_META_TITLE
    ELSE LET i == localized_entry(jeu_dic.noms, "region", user_region, region_list)
         IN  IF i > 0 THEN jeu_dic.noms[i].text ELSE DEFAULT_META_TITLE

_parse_meta_year(jeu_dic, user_region) ==
    IF "dates" \notin DOMAIN jeu_dic THEN DEFAULT_META_YEAR
    ELSE LET i == localized_entry(jeu_dic.dates, "region", user_region, region_list)
         IN  IF i > 0 THEN first_four(jeu_dic.dates[i].text) ELSE DEFAULT_META_YEAR

\* Only the first genre is used; jeu_dic['genres'][0] of an empty list
\* raises IndexError, which the parser does not catch.
_parse_meta_genre(jeu_dic, user_language) ==
    IF "genres" \notin DOMAIN jeu_dic THEN DEFAULT_META_GENRE
    ELSE IF jeu_dic.genres = << >> THEN Raise("IndexError")
    ELSE IF "noms" \notin DOMAIN jeu_dic.genres[1] THEN DEFAULT_META_GENRE
    ELSE LET genre_item == jeu_dic.genres[1]
             i == localized_entry(genre_item.noms, "langue", user_language,
                                  language_list)
         IN  IF i > 0 THEN genre_item.noms[i].text ELSE DEFAULT_META_GENRE

_parse_meta_developer(jeu_dic) ==
    IF "developpeur" \notin DOMAIN jeu_dic THEN DEFAULT_META_DEVELOPER
    ELSE jeu_dic.developpeur.text

\* Variant of _parse_meta_nplayers that returns the default for a range.
_parse_meta_nplayers_plain_only(jeu_dic) ==
    IF "joueurs" \notin DOMAIN jeu_dic THEN DEFAULT_META_NPLAYERS
    ELSE IF Len(jeu_dic.joueurs.text) > 1 THEN DEFAULT_META_NPLAYERS
    ELSE jeu_dic.joueurs.text

_parse_meta_nplayers(jeu_dic) ==
    IF "joueurs" \notin DOMAIN jeu_dic THEN DEFAULT_META_NPLAYERS
    ELSE jeu_dic.joueurs.text

_parse_meta_esrb(jeu_dic) == DEFAULT_META_ESRB

_parse_meta_plot(jeu_dic, user_language) ==
    IF "synopsis" \notin DOMAIN jeu_dic THEN DEFAULT_META_PLOT
    ELSE LET i == localized_entry(jeu_dic.synopsis, "langue", user_language,
                                  language_list)
         IN  IF i > 0 THEN jeu_dic.synopsis[i].text ELSE DEFAULT_META_PLOT

\* Scraper._new_gamedata_dic(): the metadata record with every default.
_new_gamedata_dic ==
    [ title |-> DEFAULT_META_TITLE, year |-> DEFAULT_META_YEAR,
      genre |-> DEFAULT_META_GENRE, developer |-> DEFAULT_META_DEVELOPER,
      nplayers |-> DEFAULT_META_NPLAYERS, esrb |-> DEFAULT_META_ESRB,
      plot |-> DEFAULT_META_PLOT ]

\* The body of get_metadata after the cache lookup.  The first parser
\* that raises ends the operation.
parse_game_metadata(jeu_dic, user_region, user_language) ==
    LET genre == _parse_meta_genre(jeu_dic, user_language)
    IN  IF Raised(genre)
        THEN [ raised |-> genre[2], gamedata |-> _new_gamedata_dic ]
        ELSE [ raised |-> "None",
               gamedata |->
                 [ title |-> _parse_meta_title(jeu_dic, user_region),
                   year |-> _parse_meta_year(jeu_dic, user_region),
                   genre |-> genre,
                   developer |-> _parse_meta_developer(jeu_dic),
                   nplayers |-> _parse_meta_nplayers(jeu_dic),
                   esrb |-> _parse_meta_esrb(jeu_dic),
                   plot |-> _parse_meta_plot(jeu_dic, user_language) ] ]

(***************************************************************************)
(* Assets.                                                                 *)
(***************************************************************************)
asset_name_mapping ==
    [ t \in { "fanart", "screenmarqueesmall", "steamgrid", "wheel",
              "wheel-carbon", "wheel-steel", "sstitle", "ss", "box-2D",
              "box-2D-back", "box-3D", "support-2D", "maps" } |->
        CASE t = "fanart" -> "ASSET_FANART_ID"
          [] t \in { "screenmarqueesmall", "steamgrid" } -> "ASSET_BANNER_ID"
          [] t \in { "wheel", "wheel-carbon", "wheel-steel" } -> "ASSET_CLEARLOGO_ID"
          [] t = "sstitle" -> "ASSET_TITLE_ID"
          [] t = "ss" -> "ASSET_SNAP_ID"
          [] t = "box-2D" -> "ASSET_BOXFRONT_ID"
          [] t = "box-2D-back" -> "ASSET_BOXBACK_ID"
          [] t = "box-3D" -> "ASSET_3DBOX_ID"
          [] t = "support-2D" -> "ASSET_CARTRIDGE_ID"
          [] t = "maps" -> "ASSET_MAP_ID" ]

TIME_WAIT_GET_ASSETS == 1200   \* 1.2 s, in ms

\* The asset dictionary built for one media entry of a known type.
asset_data_of(jeu_dic, media_dic) ==
    LET region == IF "region" \in DOMAIN media_dic THEN media_dic.region ELSE ""
        media_type == IF region # "" THEN << media_dic.type, " ", region >>
                                     ELSE << media_dic.type >>
    IN  [ asset_ID |-> asset_name_mapping[media_dic.type],
          display_name |-> media_type,
          url_thumb |-> [ gameid |-> jeu_dic.id, media |-> media_type,
                          region |-> region ],
          url |-> media_dic.url,
          SS_format |-> media_dic.format ]

\* Variant of _retrieve_all_assets that lists an entry of an unknown type
\* like a screenshot.
RECURSIVE _retrieve_all_assets_no_skip(_, _)
_retrieve_all_assets_no_skip(jeu_dic, i) ==
    IF i > Len(jeu_dic.medias) THEN << >>
    ELSE LET media_dic == jeu_dic.medias[i]
             known == IF media_dic.type \in DOMAIN asset_name_mapping
                      THEN media_dic
                      ELSE [ media_dic EXCEPT !.type = "ss" ]
         IN  << asset_data_of(jeu_dic, known) >>
                 \o _retrieve_all_assets_no_skip(jeu_dic, i + 1)

\* _retrieve_all_assets: the loop over jeu_dic['medias'] from entry i on.
RECURSIVE _retrieve_all_assets(_, _)
_retrieve_all_assets(jeu_dic, i) ==
    IF i > Len(jeu_dic.medias) THEN << >>
    ELSE LET media_dic == jeu_dic.medias[i]
             rest == _retrieve_all_assets(jeu_dic, i + 1)
         IN  IF media_dic.type \in DOMAIN asset_name_mapping
             THEN << asset_data_of(jeu_dic, media_dic) >> \o rest
             ELSE rest

\* Variant of asset_list_of that stops at the first record of the kind.
asset_list_of_first_only(all_asset_list, asset_info_id) ==
    LET at == { i \in 1..Len(all_asset_list) :
                  all_asset_list[i].asset_ID = asset_info_id }
    IN  IF at = { } THEN << >>
        ELSE << all_asset_list[CHOOSE i \in at : \A j \in at : i <= j] >>

\* [asset_dic for asset_dic in all_asset_list if asset_dic['asset_ID'] == id]
RECURSIVE asset_list_of(_, _)
asset_list_of(all_asset_list, asset_info_id) ==
    IF all_asset_list = << >> THEN << >>
    ELSE LET rest == asset_list_of(Tail(all_asset_list), asset_info_id)
         IN  IF Head(all_asset_list).asset_ID = asset_info_id
             THEN << Head(all_asset_list) >> \o rest
             ELSE rest

\* Variant of _wait_for_asset_request that never sleeps.
_wait_for_asset_request_no_sleep(t, last_call) == t

\* _wait_for_asset_request at clock value t: the clock value at its end,
\* which is also the new last_get_assets_call.
_wait_for_asset_request(t, last_call) ==
    IF t - last_call < TIME_WAIT_GET_ASSETS
    THEN t + TIME_WAIT_GET_ASSETS
    ELSE t

(***************************************************************************)
(* Cached records given to the parsers and to the asset extractor.  Each   *)
(* record has the game id and the media list, and at most one of the       *)
(* metadata fields.                                                        *)
(***************************************************************************)
EntryRegions == { "jp", "eu", "us", "xx" }      \* "xx" is not in region_list
EntryLanguages == { "ja", "es", "en", "xx" }    \* "xx" is not in language_list
UserRegions == { "wor", "us" }
UserLanguages == { "en", "es" }

\* The text of the i-th entry, tagged v, of a field.
TitleText(v, i) == << "T", v, ToString(i) >>
DateText(v, i) ==
    << "1", "9", "9", ToString(i), "-", "0", "6", "-", "2", "3" >>
GenreText(v, i) == << "G", v, ToString(i) >>
PlotText(v, i) == << "P", v, ToString(i) >>

TextOf(field, v, i) ==
    CASE field = "noms" -> TitleText(v, i)
      [] field = "dates" -> DateText(v, i)
      [] field = "genres" -> GenreText(v, i)
      [] field = "synopsis" -> PlotText(v, i)

\* Every list of at most MaxEntries entries { key: value, 'text': text } of
\* a field.
EntryLists(key, values, field) ==
    UNION { { [ i \in 1..n |->
                  (key :> f[i]) @@ ("text" :> TextOf(field, f[i], i)) ] :
                f \in [ 1..n -> values ] } : n \in 0..MaxEntries }

BareRecord == [ id |-> 9, medias |-> << >> ]
With(key, value) == (key :> value) @@ BareRecord

TitleRecords ==
    { With("noms", l) : l \in EntryLists("region", EntryRegions, "noms") }
DateRecords ==
    { With("dates", l) : l \in EntryLists("region", EntryRegions, "dates") }
\* One genre, one genre followed by a second one with an English name, a
\* genre without names, and the empty genre list.
GenreRecords ==
    { With("genres", << [ id |-> 1, noms |-> l ] >>) :
        l \in EntryLists("langue", EntryLanguages, "genres") }
    \cup { With("genres", << [ id |-> 1, noms |-> l ],
                             [ id |-> 2, noms |-> << [ langue |-> "en",
                                 text |-> GenreText("second", 1) ] >> ] >>) :
             l \in EntryLists("langue", EntryLanguages, "genres") }
    \cup { With("genres", << [ id |-> 1 ] >>), With("genres", << >>) }
PlotRecords ==
    { With("synopsis", l) : l \in EntryLists("langue", EntryLanguages, "synopsis") }
PlainRecords ==
    { BareRecord,
      With("developpeur", [ id |-> 4, text |-> << "S", "E", "G", "A" >> ]),
      With("joueurs", [ text |-> << "1", "-", "4" >> ]),
      With("joueurs", [ text |-> << "2" >> ]) }

\* Media entries: two known types, one unknown; 'region' is optional.
MediaEntries ==
    { [ type |-> "box-2D", region |-> "wor", url |-> URL_media_cred,
        format |-> "png" ],
      [ type |-> "ss", url |-> URL_media_plain, format |-> "jpg" ],
      [ type |-> "manuel", region |-> "eu", url |-> URL_media_plain,
        format |-> "pdf" ],
      [ type |-> "box-2D", region |-> "jp", url |-> URL_media_plain,
        format |-> "jpg" ] }
MediaRecords ==
    { [ id |-> 9, medias |-> m ] :
        m \in UNION { [ 1..n -> MediaEntries ] : n \in 0..MaxEntries } }

ParseRecords ==
    TitleRecords \cup DateRecords \cup GenreRecords \cup PlotRecords
        \cup PlainRecords \cup MediaRecords

\* URLs given to the redaction: up to MaxParams parameters joined by '&'.
Params ==
    { Tok("devid", "dev"), Tok("devpassword", "dpw"), Tok("devpassword", "p$w"),
      Tok("softname", "AEL"), Tok("output", "json"), Tok("ssid", "user"),
      Tok("sspassword", "upw"), Tok("other", "1") }

RECURSIVE Joined(_, _)
Joined(params, i) ==
    IF i > Len(params) THEN << >>
    ELSE IF i = Len(params) THEN << params[i] >>
    ELSE << params[i], AMP >> \o Joined(params, i + 1)

URLs ==
    { << HTTP >> \o Joined(params, 1) :
        params \in UNION { [ 1..n -> Params ] : n \in 1..MaxParams } }

AssetIDs == { "ASSET_BOXFRONT_ID", "ASSET_SNAP_ID" }
DownloadDurations == { 500, 2000 }

(***************************************************************************)
(* State.                                                                  *)
(***************************************************************************)
VARIABLES
    now,                  \* wall clock (ms)
    last_http_call,       \* self.last_http_call
    ssid, sspassword,     \* user credentials read from the settings
    scraper_deactivated,  \* attribute written by check_before_scraping
    scraper_disabled,     \* attribute read by the public operations
    dump_file_flag,       \* self.dump_file_flag
    cache,                \* internal disk cache: key -> stored jeu_dic
    cache_key,            \* self.cache_key
    status_dic,           \* the caller's status descriptor
    pc,                   \* position of the operation in progress
    frame,                \* locals of the operation in progress
    result,               \* value returned by the last public operation
    ScreenScraper_url_txt,           \* diagnostic file: << >> or << url >>
    ScreenScraper_page_data_raw_txt, \* diagnostic file: << >> or << body >>
    ScreenScraper_gameInfo_json,     \* debug dump: << >> or << content >>
    calls,                \* public operations started
    n429,                 \* 429 answers given by the provider
    checked,              \* check_before_scraping found credentials missing
    entry,                \* the operation's start: status descriptor, cache,
                          \* disabled flag, whether checksums were available
    requests,             \* requests of the last operation: time, retry
    responses,            \* their answers: outcome and time
    backoffs,             \* backoff waits of the last operation
    cache_writes,         \* cache updates of the last operation
    fetch_ret,            \* value returned by its _retrieve_URL_as_JSON
    user_region,          \* self.user_region
    user_language,        \* self.user_language
    last_get_assets_call, \* self.last_get_assets_call
    the_url,              \* argument of a call of _clean_URL_for_log
    clean_url,            \* the value that call returned
    peer                  \* the two timestamps of a second ScreenScraper object

vars == << now, last_http_call, ssid, sspassword, scraper_deactivated,
           scraper_disabled, dump_file_flag, cache, cache_key, status_dic, pc,
           frame, result, ScreenScraper_url_txt,
           ScreenScraper_page_data_raw_txt, ScreenScraper_gameInfo_json,
           calls, n429, checked, entry, requests, responses, backoffs,
           cache_writes, fetch_ret, user_region, user_language,
           last_get_assets_call, the_url, clean_url, peer >>

history_vars == << entry, requests, responses, backoffs, cache_writes, fetch_ret >>
config_vars == << ssid, sspassword, dump_file_flag, user_region, user_language >>
other_vars == << the_url, clean_url >>
file_vars == << ScreenScraper_url_txt, ScreenScraper_page_data_raw_txt,
                ScreenScraper_gameInfo_json >>

NoFrame == [ platform |-> "None", scraper_platform |-> 0, retry |-> 0,
             url |-> [ romtype |-> "None", systemeid |-> 0, romnom |-> "None" ] ]
NoResult == [ op |-> "none", ret |-> Ret_None ]
NoEntry == [ status_dic |-> new_status_dic(OK_MSG), cache |-> << >>,
             disabled |-> FALSE, checksums |-> FALSE ]
NotReturned == [ returned |-> FALSE, json |-> None_json ]

\* The settings the scraper is constructed with.
Credentials == { << "user", "secret" >>, << "", "secret" >>, << "user", "" >> }

\* The object after __init__, before the settings that vary are read.
\* A second ScreenScraper object: not built, or its two timestamps.
NoPeer == [ built |-> FALSE, last_http_call |-> 0, last_get_assets_call |-> 0 ]

Constructed ==
    /\ now = 0
    /\ last_http_call = 0
    /\ \E c \in Credentials : ssid = c[1] /\ sspassword = c[2]
    /\ scraper_deactivated = FALSE
    /\ scraper_disabled = FALSE
    /\ dump_file_flag = FALSE
    /\ cache_key = NoKey
    /\ status_dic = new_status_dic(OK_MSG)
    /\ pc = "idle"
    /\ frame = NoFrame
    /\ result = NoResult
    /\ ScreenScraper_url_txt = << >>
    /\ ScreenScraper_page_data_raw_txt = << >>
    /\ ScreenScraper_gameInfo_json = << >>
    /\ calls = 0
    /\ n429 = 0
    /\ checked = FALSE
    /\ entry = NoEntry
    /\ requests = << >>
    /\ responses = << >>
    /\ backoffs = << >>
    /\ cache_writes = 0
    /\ fetch_ret = NotReturned
    /\ last_get_assets_call = 0
    /\ peer = NoPeer

NoURL == << >>

Init ==
    /\ Constructed
    /\ cache = << >>
    /\ user_region = region_list[1]
    /\ user_language = language_list[1]
    /\ the_url = NoURL
    /\ clean_url = NoURL

\* The origin of the clock moves to last_http_call: a timestamp seen from
\* the new origin.  Whatever is older than TIME_WAIT_GET_ASSETS at the new
\* origin is old enough for every later test.
Rebased(t) ==
    IF t - last_http_call < 0 - TIME_WAIT_GET_ASSETS
    THEN 0 - TIME_WAIT_GET_ASSETS
    ELSE t - last_http_call

\* The timestamps of the second object on the clock with the new origin.
RebasedPeer ==
    IF peer.built
    THEN [ peer EXCEPT
             !.last_http_call =
                 IF peer.last_http_call - last_http_call < 0 - API_WAIT_MS
                 THEN 0 - API_WAIT_MS
                 ELSE peer.last_http_call - last_http_call,
             !.last_get_assets_call = Rebased(peer.last_get_assets_call) ]
    ELSE peer

\* The record of the previous operation is dropped when the caller moves
\* on.  The engine reads the clock only through differences with
\* last_http_call, so the origin of the clock is moved to last_http_call;
\* d is the time that passes.
Forget(d) ==
    /\ result' = NoResult
    /\ entry' = NoEntry
    /\ requests' = << >>
    /\ responses' = << >>
    /\ backoffs' = << >>
    /\ cache_writes' = 0
    /\ fetch_ret' = NotReturned
    /\ now' = (now - last_http_call) + d
    /\ last_http_call' = 0
    /\ last_get_assets_call' = Rebased(last_get_assets_call)
    /\ peer' = RebasedPeer

(***************************************************************************)
(* Caller-side operations of the base class and of the environment.        *)
(***************************************************************************)
\* The caller takes a fresh status descriptor (kodi.new_status_dic).
fresh_status_dic ==
    /\ pc = "idle"
    /\ calls < MaxCalls
    /\ status_dic' = new_status_dic(OK_MSG)
    /\ Forget(0)
    /\ UNCHANGED << config_vars, other_vars, scraper_deactivated, scraper_disabled, cache,
                    cache_key, pc, frame, file_vars, calls, n429, checked >>

\* Scraper.set_debug_file_dump(flag, dir), called when the scraper is set up.
set_debug_file_dump(flag) ==
    /\ pc = "idle"
    /\ calls = 0
    /\ dump_file_flag' = flag
    /\ UNCHANGED << now, last_http_call, ssid, sspassword, scraper_deactivated,
                    scraper_disabled, cache, cache_key, status_dic, pc, frame,
                    result, file_vars, calls, n429, checked, history_vars,
                    user_region, user_language, last_get_assets_call,
                    other_vars, peer >>

\* Scraper.check_candidates_cache(rom_FN, platform): selects the cache key.
check_candidates_cache(rom_FN) ==
    /\ pc = "idle"
    /\ calls < MaxCalls
    /\ cache_key' = rom_FN.base
    /\ Forget(0)
    /\ UNCHANGED << config_vars, other_vars, scraper_deactivated, scraper_disabled, cache,
                    status_dic, pc, frame, file_vars, calls, n429, checked >>

\* The base class disables the scraper (its error accounting is not part
\* of this repository).
disable_scraper ==
    /\ pc = "idle"
    /\ calls < MaxCalls
    /\ ~scraper_disabled
    /\ scraper_disabled' = TRUE
    /\ Forget(0)
    /\ UNCHANGED << config_vars, other_vars, scraper_deactivated, cache, cache_key,
                    status_dic, pc, frame, file_vars, calls, n429, checked >>

\* Time passes between two operations.
Tick(d) ==
    /\ pc = "idle"
    /\ calls < MaxCalls
    /\ now - last_http_call < MaxIdle
    /\ Forget(d)
    /\ UNCHANGED << config_vars, other_vars, scraper_deactivated, scraper_disabled, cache,
                    cache_key, status_dic, pc, frame, file_vars, calls, n429,
                    checked >>

(***************************************************************************)
(* ScreenScraper.check_before_scraping, called before scraping starts.     *)
(***************************************************************************)
check_before_scraping ==
    /\ pc = "idle"
    /\ calls = 0
    /\ IF ssid # "" /\ sspassword # ""
       THEN UNCHANGED << scraper_deactivated, status_dic, checked >>
       ELSE /\ scraper_deactivated' = TRUE
            /\ status_dic' = [ status |-> FALSE, dialog |-> KODI_MESSAGE_DIALOG,
                               msg |-> CREDENTIALS_MSG ]
            /\ checked' = TRUE
    /\ UNCHANGED << now, last_http_call, config_vars, scraper_disabled, cache,
                    cache_key, pc, frame, result, file_vars, calls, n429,
                    history_vars, last_get_assets_call, other_vars, peer >>

(***************************************************************************)
(* ScreenScraper.get_candidates for the ROM selected by the caller, up to  *)
(* the first request of the fetch.                                         *)
(***************************************************************************)
get_candidates(rom_FN, checksums) ==
    /\ pc = "idle"
    /\ calls < MaxCalls
    /\ rom_FN.base = cache_key
    /\ calls' = calls + 1
    /\ entry' = [ status_dic |-> status_dic, cache |-> cache,
                  disabled |-> scraper_disabled,
                  checksums |-> checksums \in { "debug", "computed" } ]
    /\ requests' = << >>
    /\ responses' = << >>
    /\ backoffs' = << >>
    /\ cache_writes' = 0
    /\ fetch_ret' = NotReturned
    /\ now' = now - last_http_call
    /\ last_http_call' = 0
    /\ last_get_assets_call' = Rebased(last_get_assets_call)
    /\ peer' = RebasedPeer
    /\ LET platform == rom_FN.platform
           scraper_platform == convert_AEL_platform_to_ScreenScraper(platform)
           rom_type == IF platform \in ISO_platform_set THEN "iso" ELSE "rom"
           path == before_fetch(scraper_disabled, checksums)
       IN
       IF path = "disabled"
       THEN /\ result' = [ op |-> "get_candidates", ret |-> Ret_None ]
            /\ UNCHANGED << status_dic, pc, frame >>
       ELSE IF path = "no_file"
       THEN /\ result' = [ op |-> "get_candidates",
                           ret |-> get_candidates_return(Ret_None, status_dic) ]
            /\ UNCHANGED << status_dic, pc, frame >>
       ELSE IF path = "checksum_error"
       THEN /\ status_dic' = [ status_dic EXCEPT !.status = FALSE,
                                                 !.msg = CHECKSUM_MSG ]
            /\ result' = [ op |-> "get_candidates",
                           ret |-> get_candidates_return(Ret_None, status_dic') ]
            /\ UNCHANGED << pc, frame >>
       ELSE /\ frame' = [ platform |-> platform,
                          scraper_platform |-> scraper_platform,
                          retry |-> 0,
                          url |-> [ romtype |-> rom_type,
                                    systemeid |-> scraper_platform,
                                    romnom |-> rom_FN.base ] ]
            /\ pc' = "retrieve"
            /\ result' = NoResult
            /\ UNCHANGED status_dic
    /\ UNCHANGED << config_vars, other_vars, scraper_deactivated, scraper_disabled, cache,
                    cache_key, file_vars, n429, checked >>

(***************************************************************************)
(* _retrieve_URL_as_JSON: the rate-limiter wait and the request.           *)
(***************************************************************************)
send_request ==
    /\ pc = "retrieve"
    /\ now' = _wait_for_API_request(now, last_http_call, API_WAIT_MS)
    /\ requests' = Append(requests, [ t |-> now', retry |-> frame.retry ])
    /\ pc' = "get_URL"
    /\ UNCHANGED << last_http_call, last_get_assets_call, other_vars, peer,
                    config_vars, scraper_deactivated,
                    scraper_disabled, cache, cache_key, status_dic, frame,
                    result, file_vars, calls, n429, checked, entry, responses,
                    backoffs, cache_writes, fetch_ret >>

(***************************************************************************)
(* _retrieve_URL_as_JSON: net.get_URL returns outcome o after d ms; the    *)
(* answer is dispatched and, unless it is a retried 429, the fetch returns *)
(* and _search_candidates_jeuInfos and get_candidates run to their end.    *)
(***************************************************************************)
receive_response(o, d) ==
    /\ pc = "get_URL"
    /\ o.code = 429 => n429 < Max429
    /\ n429' = IF o.code = 429 THEN n429 + 1 ELSE n429
    /\ now' = now + d
    /\ last_http_call' = now'
    /\ responses' = Append(responses, [ o |-> o, t |-> now' ])
    /\ LET r == classify_response(o, frame.retry, status_dic)
       IN
       IF r.next = "retry"
       THEN /\ pc' = "dialog_OK"
            /\ UNCHANGED << cache, status_dic, frame, result, file_vars,
                            cache_writes, fetch_ret >>
       ELSE LET tail == search_candidates_tail(r.json, r.status_dic,
                            dump_file_flag, cache, cache_key, frame.platform,
                            frame.scraper_platform)
            IN  /\ status_dic' = r.status_dic
                /\ ScreenScraper_url_txt' =
                       IF r.dumped THEN << frame.url >> ELSE ScreenScraper_url_txt
                /\ ScreenScraper_page_data_raw_txt' =
                       IF r.dumped THEN << o.body >>
                                   ELSE ScreenScraper_page_data_raw_txt
                /\ ScreenScraper_gameInfo_json' =
                       IF tail.json_dumped THEN << "None" >>
                                           ELSE ScreenScraper_gameInfo_json
                /\ cache' = tail.cache
                /\ cache_writes' = IF tail.written THEN 1 ELSE 0
                /\ fetch_ret' = [ returned |-> TRUE, json |-> r.json ]
                /\ result' = [ op |-> "get_candidates",
                               ret |-> get_candidates_return(tail.ret, r.status_dic) ]
                /\ frame' = NoFrame
                /\ pc' = "idle"
    /\ UNCHANGED << config_vars, other_vars, peer, scraper_deactivated, scraper_disabled,
                    cache_key, calls, checked, entry, requests, backoffs,
                    last_get_assets_call >>

(***************************************************************************)
(* _retrieve_URL_as_JSON, 429 branch: the notice is closed after d ms,     *)
(* the backoff wait runs and the fetch calls itself with retry + 1.        *)
(***************************************************************************)
retry_after_429(d) ==
    /\ pc = "dialog_OK"
    /\ LET amount == amount_seconds(frame.retry)
       IN  /\ now' = _wait_for_API_request(now + d, last_http_call, amount * 1000)
           /\ backoffs' = Append(backoffs,
                  [ amount |-> amount, from |-> now + d, to |-> now' ])
    /\ frame' = [ frame EXCEPT !.retry = @ + 1 ]
    /\ pc' = "retrieve"
    /\ UNCHANGED << last_http_call, last_get_assets_call, other_vars, peer,
                    config_vars, scraper_deactivated,
                    scraper_disabled, cache, cache_key, status_dic, result,
                    file_vars, calls, n429, checked, entry, requests, responses,
                    cache_writes, fetch_ret >>

\* Variant of get_metadata that takes the record out of the cache when it
\* has read it.
get_metadata_takes_record ==
    /\ pc = "idle"
    /\ calls < MaxCalls
    /\ calls' = calls + 1
    /\ result' =
         IF scraper_disabled
         THEN [ op |-> "get_metadata", raised |-> "None",
                ret |-> _new_gamedata_dic ]
         ELSE IF cache_key \notin DOMAIN cache
         THEN [ op |-> "get_metadata", raised |-> "ValueError",
                ret |-> _new_gamedata_dic ]
         ELSE LET r == parse_game_metadata(cache[cache_key], user_region,
                                           user_language)
              IN  [ op |-> "get_metadata", raised |-> r.raised,
                    ret |-> r.gamedata ]
    /\ cache' = IF scraper_disabled THEN cache
                ELSE [ k \in DOMAIN cache \ { cache_key } |-> cache[k] ]
    /\ UNCHANGED << now, last_http_call, last_get_assets_call, config_vars,
                    other_vars, peer, scraper_deactivated, scraper_disabled,
                    cache_key, status_dic, pc, frame, file_vars, n429, checked,
                    history_vars >>

(***************************************************************************)
(* ScreenScraper.get_metadata.                                             *)
(***************************************************************************)
get_metadata ==
    /\ pc = "idle"
    /\ calls < MaxCalls
    /\ calls' = calls + 1
    /\ result' =
         IF scraper_disabled
         THEN [ op |-> "get_metadata", raised |-> "None",
                ret |-> _new_gamedata_dic ]
         ELSE IF cache_key \notin DOMAIN cache
         THEN [ op |-> "get_metadata", raised |-> "ValueError",
                ret |-> _new_gamedata_dic ]
         ELSE LET r == parse_game_metadata(cache[cache_key], user_region,
                                           user_language)
              IN  [ op |-> "get_metadata", raised |-> r.raised,
                    ret |-> r.gamedata ]
    /\ UNCHANGED << now, last_http_call, last_get_assets_call, config_vars,
                    other_vars, peer, scraper_deactivated, scraper_disabled, cache,
                    cache_key, status_dic, pc, frame, file_vars, n429, checked,
                    history_vars >>

(***************************************************************************)
(* ScreenScraper.get_assets(asset_info_id, status_dic).  'all' keeps the   *)
(* list _retrieve_all_assets returned, 'waited' tells that the operation   *)
(* reached _wait_for_asset_request.                                        *)
(***************************************************************************)
get_assets(asset_info_id) ==
    /\ pc = "idle"
    /\ calls < MaxCalls
    /\ calls' = calls + 1
    /\ IF scraper_disabled
       THEN /\ result' = [ op |-> "get_assets", raised |-> "None",
                           ret |-> Ret_list(<< >>), all |-> << >>,
                           waited |-> FALSE ]
            /\ UNCHANGED << now, last_get_assets_call >>
       ELSE IF cache_key \notin DOMAIN cache
       THEN /\ result' = [ op |-> "get_assets", raised |-> "ValueError",
                           ret |-> Ret_None, all |-> << >>, waited |-> FALSE ]
            /\ UNCHANGED << now, last_get_assets_call >>
       ELSE LET all_asset_list == _retrieve_all_assets(cache[cache_key], 1)
            IN  IF ~status_dic.status
                THEN /\ result' = [ op |-> "get_assets", raised |-> "None",
                                    ret |-> Ret_None, all |-> all_asset_list,
                                    waited |-> FALSE ]
                     /\ UNCHANGED << now, last_get_assets_call >>
                ELSE /\ result' =
                          [ op |-> "get_assets", raised |-> "None",
                            ret |-> Ret_list(asset_list_of(all_asset_list,
                                                           asset_info_id)),
                            all |-> all_asset_list, waited |-> TRUE ]
                     /\ now' = _wait_for_asset_request(now, last_get_assets_call)
                     /\ last_get_assets_call' = now'
    /\ UNCHANGED << last_http_call, config_vars, other_vars, peer,
                    scraper_deactivated, scraper_disabled, cache, cache_key,
                    status_dic, pc, frame, file_vars, n429, checked,
                    history_vars >>

\* The caller downloads an asset of the list it got: d ms pass.
download(d) ==
    /\ pc = "idle"
    /\ result.op = "get_assets"
    /\ now' = now + d
    /\ result' = NoResult
    /\ UNCHANGED << last_http_call, last_get_assets_call, config_vars,
                    other_vars, peer, scraper_deactivated, scraper_disabled, cache,
                    cache_key, status_dic, pc, frame, file_vars, calls, n429,
                    checked, history_vars >>

(***************************************************************************)
(* ScreenScraper._clean_URL_for_log(url), called on a URL about to be      *)
(* logged.                                                                 *)
(***************************************************************************)
clean_URL_for_log(url) ==
    /\ pc = "idle"
    /\ the_url = NoURL
    /\ the_url' = url
    /\ clean_url' = _clean_URL_for_log(url)
    /\ UNCHANGED << now, last_http_call, last_get_assets_call, config_vars,
                    peer, scraper_deactivated, scraper_disabled, cache,
                    cache_key, status_dic, result, pc, frame, file_vars, calls,
                    n429, checked, history_vars >>

(***************************************************************************)
(* A second ScreenScraper object in the same process.  Nothing runs        *)
(* concurrently: its operations run between the operations of the first.   *)
(***************************************************************************)
\* ScreenScraper(): __init__ sets both timestamps to the clock.
peer_new ==
    /\ pc = "idle"
    /\ ~peer.built
    /\ peer' = [ built |-> TRUE, last_http_call |-> now,
                 last_get_assets_call |-> now ]
    /\ UNCHANGED << now, last_http_call, last_get_assets_call, config_vars,
                    other_vars, scraper_deactivated, scraper_disabled, cache,
                    cache_key, status_dic, result, pc, frame, file_vars, calls,
                    n429, checked, history_vars >>

\* _retrieve_URL_as_JSON of the second object: the wait, the request that
\* takes d ms, and the timestamp.
peer_retrieve_URL_as_JSON(d) ==
    /\ pc = "idle"
    /\ peer.built
    /\ calls < MaxCalls
    /\ calls' = calls + 1
    /\ now' = _wait_for_API_request(now, peer.last_http_call, API_WAIT_MS) + d
    /\ peer' = [ peer EXCEPT !.last_http_call = now' ]
    /\ UNCHANGED << last_http_call, last_get_assets_call, config_vars,
                    other_vars, scraper_deactivated, scraper_disabled, cache,
                    cache_key, status_dic, result, pc, frame, file_vars, n429,
                    checked, history_vars >>

\* Variant of peer_wait_for_asset_request for a timestamp that is an
\* attribute of the class: the first object sees the assignment.
peer_wait_for_asset_request_class_attribute ==
    /\ pc = "idle"
    /\ peer.built
    /\ calls < MaxCalls
    /\ calls' = calls + 1
    /\ now' = _wait_for_asset_request(now, peer.last_get_assets_call)
    /\ peer' = [ peer EXCEPT !.last_get_assets_call = now' ]
    /\ last_get_assets_call' = now'
    /\ UNCHANGED << last_http_call, config_vars,
                    other_vars, scraper_deactivated, scraper_disabled, cache,
                    cache_key, status_dic, result, pc, frame, file_vars, n429,
                    checked, history_vars >>

\* _wait_for_asset_request of the second object, at the end of its get_assets.
peer_wait_for_asset_request ==
    /\ pc = "idle"
    /\ peer.built
    /\ calls < MaxCalls
    /\ calls' = calls + 1
    /\ now' = _wait_for_asset_request(now, peer.last_get_assets_call)
    /\ peer' = [ peer EXCEPT !.last_get_assets_call = now' ]
    /\ UNCHANGED << last_http_call, last_get_assets_call, config_vars,
                    other_vars, scraper_deactivated, scraper_disabled, cache,
                    cache_key, status_dic, result, pc, frame, file_vars, n429,
                    checked, history_vars >>

Next ==
    \/ fresh_status_dic
    \/ \E flag \in BOOLEAN : set_debug_file_dump(flag)
    \/ \E rom_FN \in ROMs : check_candidates_cache(rom_FN)
    \/ disable_scraper
    \/ \E d \in IdleDurations : Tick(d)
    \/ check_before_scraping
    \/ \E rom_FN \in ROMs, c \in ChecksumCases : get_candidates(rom_FN, c)
    \/ send_request
    \/ \E o \in Outcomes, d \in HttpDurations : receive_response(o, d)
    \/ \E d \in DialogDurations : retry_after_429(d)

Spec == Init /\ [][Next]_vars

(***************************************************************************)
(* The steps of a fetch are taken when they can be: the HTTP call returns  *)
(* (with an answer or a transport failure), the user closes the rate-limit *)
(* notice, and the engine's own steps run.                                 *)
(***************************************************************************)
FetchStep ==
    \/ send_request
    \/ \E o \in Outcomes, d \in HttpDurations : receive_response(o, d)
    \/ \E d \in DialogDurations : retry_after_429(d)

\* The calls of one scraping run of the engine, without the settings and
\* the idle time between the calls.
ScrapeNext ==
    \/ \E rom_FN \in ROMs : check_candidates_cache(rom_FN)
    \/ \E rom_FN \in ROMs, c \in ChecksumCases : get_candidates(rom_FN, c)
    \/ FetchStep

FairSpec == Init /\ [][ScrapeNext]_vars /\ WF_vars(FetchStep)

(***************************************************************************)
(* Metadata and assets of a record that is in the cache when the object is *)
(* built (the disk cache outlives the session).                            *)
(***************************************************************************)
ParseInit ==
    /\ Constructed
    /\ \E jeu_dic \in ParseRecords : cache = ("Sonic.zip" :> jeu_dic)
    /\ user_region \in UserRegions
    /\ user_language \in UserLanguages
    /\ the_url = NoURL
    /\ clean_url = NoURL

ParseNext ==
    \/ \E rom_FN \in ROMs : check_candidates_cache(rom_FN)
    \/ get_metadata
    \/ \E asset_info_id \in AssetIDs : get_assets(asset_info_id)
    \/ \E d \in DownloadDurations : download(d)

ParseSpec == ParseInit /\ [][ParseNext]_vars

(***************************************************************************)
(* A session of two objects: the first one scrapes and lists assets, with  *)
(* one game in the cache from an earlier session; the second one fetches   *)
(* and lists assets of its own.                                            *)
(***************************************************************************)
SessionInit ==
    /\ Constructed
    /\ cache = ("Sonic.zip" :> [ id |-> 9, medias |-> << >> ])
    /\ user_region = region_list[1]
    /\ user_language = language_list[1]
    /\ the_url = NoURL
    /\ clean_url = NoURL

PeerStep ==
    \/ peer_new
    \/ \E d \in HttpDurations : peer_retrieve_URL_as_JSON(d)
    \/ peer_wait_for_asset_request

SessionNext ==
    \/ ScrapeNext
    \/ \E asset_info_id \in AssetIDs : get_assets(asset_info_id)
    \/ \E d \in DownloadDurations : download(d)
    \/ PeerStep

SessionSpec == SessionInit /\ [][SessionNext]_vars

(***************************************************************************)
(* The operations on one item after another: the settings are checked,     *)
(* the caller takes a status descriptor, the cache key is selected,        *)
(* candidates are searched, metadata and assets are asked for; the base    *)
(* class may disable the scraper in between.                               *)
(***************************************************************************)
ItemNext ==
    \/ check_before_scraping
    \/ fresh_status_dic
    \/ ScrapeNext
    \/ disable_scraper
    \/ get_metadata
    \/ \E asset_info_id \in AssetIDs : get_assets(asset_info_id)

ItemSpec == Init /\ [][ItemNext]_vars

(***************************************************************************)
(* The redaction of one URL by a scraper just built.                       *)
(***************************************************************************)
RedactNext == \E url \in URLs : clean_URL_for_log(url)

RedactSpec == Init /\ [][RedactNext]_vars

(***************************************************************************)
(* Observations used by the properties.                                    *)
(***************************************************************************)
\* get_candidates has returned and its record is still held.
Done == pc = "idle" /\ result.op = "get_candidates"
\* ... and it got as far as the fetch.
Fetched == Done /\ responses # << >>
LastResponse == responses[Len(responses)]
\* The game record the provider sent in the last answer.
ProviderJeu == LastResponse.o.body.jeu
\* The last answer was a 200 whose body could be decoded.
Decoded200 ==
    /\ LastResponse.o.code = 200
    /\ LastResponse.o.has_body
    /\ decode_JSON(LastResponse.o.body).ok

(***************************************************************************)
(* C1: get_candidates returns None, an empty list or a list of exactly     *)
(* one candidate; never a list of two or more.                             *)
(***************************************************************************)
C1_AtMostOneCandidate ==
    result.op = "get_candidates" =>
        \/ result.ret = Ret_None
        \/ result.ret.kind = "list" /\ Len(result.ret.list) <= 1

\* A 200 answer produced exactly one candidate.
C1_Witness ==
    /\ Fetched
    /\ Decoded200
    /\ result.ret.kind = "list"
    /\ Len(result.ret.list) = 1

(***************************************************************************)
(* C2: when the identification request is answered with 404 and the status *)
(* flag was true on entry, get_candidates returns an empty list, the       *)
(* status descriptor is as it was on entry (success, same message) and the *)
(* cache is not written.                                                   *)
(***************************************************************************)
C2_NotFound ==
    (Fetched /\ LastResponse.o.code = 404 /\ entry.status_dic.status) =>
        /\ result.ret = Ret_list(<< >>)
        /\ status_dic = entry.status_dic
        /\ status_dic.status
        /\ cache_writes = 0
        /\ cache = entry.cache

\* A 404 answered a call that found a record of the key in the cache.
C2_Witness ==
    /\ Fetched
    /\ LastResponse.o.code = 404
    /\ entry.status_dic.status
    /\ cache_key \in DOMAIN cache

C4_FailureLeavesCache ==
    (Fetched /\ ~status_dic.status) =>
        /\ result.ret = Ret_None
        /\ cache_writes = 0
        /\ cache = entry.cache

\* The fetch failed during the call (the flag was true on entry) while a
\* record of the key was in the cache.
C4_Witness ==
    /\ Fetched
    /\ entry.status_dic.status
    /\ ~status_dic.status
    /\ cache_key \in DOMAIN cache

(***************************************************************************)
(* C5 as claimed, for a call entered with the status flag true: after a    *)
(* decoded 200 answer get_candidates returns one candidate with order 1,   *)
(* the id in string form, the text of the first name and the platform      *)
(* given, and the cache entry of the key is the provider's game record     *)
(* with 'roms' emptied and nothing else changed.                           *)
(***************************************************************************)
C5_CandidateAndCacheEntry ==
    (Fetched /\ Decoded200 /\ entry.status_dic.status) =>
        /\ result.ret.kind = "list"
        /\ Len(result.ret.list) = 1
        /\ result.ret.list[1].order = 1
        /\ result.ret.list[1].id = ToString(ProviderJeu.id)
        /\ result.ret.list[1].display_name = ProviderJeu.noms[1].text
        /\ \E rom_FN \in ROMs : /\ rom_FN.base = cache_key
                                /\ result.ret.list[1].platform = rom_FN.platform
        /\ cache_key \in DOMAIN cache
        /\ cache[cache_key] = [ ProviderJeu EXCEPT !.roms = << >> ]

(***************************************************************************)
(* C6: in one fetch the n-th answer, when it is a retried 429, is followed *)
(* by a backoff of 120*n seconds, and at least 120*n seconds lie between   *)
(* that answer and the next request.                                       *)
(***************************************************************************)
C6_BackoffBeforeRetry ==
    \A n \in 1..Len(requests) :
        n < Len(requests) =>
            /\ responses[n].o.code = 429
            /\ Len(backoffs) >= n
            /\ backoffs[n].amount = 120 * n
            /\ requests[n + 1].t - responses[n].t >= 120 * n * 1000

\* A fetch that was retried RETRY_THRESHOLD times; the user closed one of
\* the notices before the backoff was over.
C6_Witness ==
    /\ Len(requests) = RETRY_THRESHOLD + 1
    /\ \E n \in 1..Len(backoffs) : backoffs[n].to > backoffs[n].from

\* The provider answered 429 to every request of the fetch that has ended.
All429 == Fetched /\ \A i \in 1..Len(responses) : responses[i].o.code = 429

\* The bound on the requests of one fetch, and the end of a fetch that
\* was answered 429 throughout.
C7_Bounded ==
    /\ Len(requests) <= RETRY_THRESHOLD + 1
    /\ All429 =>
          /\ Len(requests) = RETRY_THRESHOLD + 1
          /\ Len(responses) = RETRY_THRESHOLD + 1
          /\ ~status_dic.status
          /\ fetch_ret.returned /\ fetch_ret.json.none
          /\ result.ret = Ret_None
          /\ Len(backoffs) = RETRY_THRESHOLD
          /\ now = LastResponse.t

(***************************************************************************)
(* C7: a fetch that has started ends; it issues at most                    *)
(* RETRY_THRESHOLD + 1 requests; a fetch answered 429 throughout ends      *)
(* after exactly RETRY_THRESHOLD + 1 requests with the status flag false   *)
(* and a null result, and no backoff follows its last 429.                 *)
(***************************************************************************)
C7_TerminatesBounded == [](C7_Bounded) /\ ((pc # "idle") ~> (pc = "idle"))

\* A fetch answered 429 throughout, entered with the status flag true.
C7_Witness == All429 /\ entry.status_dic.status

\* The answers that _retrieve_URL_as_JSON reports as errors at once.
Fatal(o) == o.code \notin {200, 404, 429} \/ (o.code = 200 /\ ~o.has_body)

(***************************************************************************)
(* C8: an answer with status 400, 430 or any other status that is not 200, *)
(* 404 or 429, or a transport failure, is not retried: no request follows  *)
(* it, the fetch has returned null, and the status flag is false with the  *)
(* message of the error.                                                   *)
(***************************************************************************)
C8_FatalNotRetried ==
    \A n \in 1..Len(responses) :
        Fatal(responses[n].o) =>
            /\ n = Len(responses)
            /\ Len(requests) = n
            /\ Done
            /\ fetch_ret.returned /\ fetch_ret.json.none
            /\ result.ret = Ret_None
            /\ ~status_dic.status
            /\ entry.status_dic.status =>
                   status_dic.msg \in { BadStatusMsg(responses[n].o.code),
                                        NETWORK_MSG }

\* The daily quota status ended a fetch at its first request, and a
\* transport failure is one of the answers the model gives.
C8_Witness ==
    /\ Done
    /\ Len(requests) = 1
    /\ LastResponse.o.code = 430
    /\ entry.status_dic.status
    /\ status_dic.msg = BadStatusMsg(430)

(***************************************************************************)
(* C9 as claimed, for get_candidates: once check_before_scraping has found *)
(* the user id or the password missing, a get_candidates call issues no    *)
(* request, returns None and leaves the status descriptor as it was.       *)
(***************************************************************************)
C9_NoRequestAfterFailedCheck ==
    checked =>
        /\ requests = << >>
        /\ Done => (result.ret = Ret_None /\ status_dic = entry.status_dic)

(***************************************************************************)
(* C10 as claimed: every URL of the record cached under cache_key by the   *)
(* call that has just ended is the URL the provider sent.                  *)
(***************************************************************************)
C10_CachedURLsUntouched ==
    (Fetched /\ cache_writes = 1) =>
        /\ Len(cache[cache_key].medias) = Len(ProviderJeu.medias)
        /\ \A i \in 1..Len(ProviderJeu.medias) :
               cache[cache_key].medias[i].url = ProviderJeu.medias[i].url

\* The body of the last answer with its defects taken out.
Corrected == [ LastResponse.o.body EXCEPT !.defects = {} ]
\* The last answer is a 200 whose body has exactly the defects ds.
Body200(ds) ==
    /\ Fetched
    /\ LastResponse.o.code = 200
    /\ LastResponse.o.has_body
    /\ LastResponse.o.body.defects = ds
\* The fetch returned the decoded corrected text and left the status
\* descriptor alone.
ReturnedCorrected ==
    /\ fetch_ret.returned
    /\ fetch_ret.json = json_loads(Corrected)
    /\ status_dic = entry.status_dic

(***************************************************************************)
(* C11 as claimed: a body with one trailing comma before a closing brace   *)
(* of an outer level decodes to the value of the corrected text after at   *)
(* most one repair pass, and the status flag stays true.                   *)
(***************************************************************************)
C11_TrailingCommaRepaired ==
    \A d \in { DEFECT_1, DEFECT_2, DEFECT_LEVEL_1 } :
        (Body200({d}) /\ entry.status_dic.status) =>
            /\ ReturnedCorrected
            /\ status_dic.status
            /\ decode_JSON(LastResponse.o.body).passes <= 1

(***************************************************************************)
(* C11 amended: the two repairs are literal replacements of the patterns   *)
(* '],\n\t\t}' and '\t\t},\n\t\t}', each applied to the raw body.  A body  *)
(* whose only defect is the first pattern is decoded after the first       *)
(* repair, one whose only defect is the second pattern after the second    *)
(* repair; the value is that of the corrected text and the status          *)
(* descriptor is untouched.  A trailing comma in any other place, or both  *)
(* patterns in one body, are not repaired: the fetch fails.                *)
(***************************************************************************)
C11_LiteralRepairs ==
    /\ Body200({DEFECT_1}) =>
           ReturnedCorrected /\ decode_JSON(LastResponse.o.body).passes = 1
    /\ Body200({DEFECT_2}) =>
           ReturnedCorrected /\ decode_JSON(LastResponse.o.body).passes = 2
    /\ (Body200({DEFECT_LEVEL_1}) \/ Body200({DEFECT_1, DEFECT_2})) =>
           /\ fetch_ret.returned /\ fetch_ret.json.none
           /\ ~status_dic.status
           /\ result.ret = Ret_None

\* A body with the second pattern only was decoded, by the second repair.
C11_Witness ==
    /\ Body200({DEFECT_2})
    /\ entry.status_dic.status
    /\ result.ret.kind = "list" /\ Len(result.ret.list) = 1

\* The last answer is a 200 body that no decoding attempt accepts.
Undecodable(o) == o.code = 200 /\ o.has_body /\ ~decode_JSON(o.body).ok

\* One step and the two diagnostic files.
DiagnosticsStep ==
    IF pc = "get_URL" /\ pc' = "idle" /\ Undecodable(responses'[Len(responses')].o)
    THEN /\ ScreenScraper_url_txt' = << frame.url >>
         /\ ScreenScraper_page_data_raw_txt' =
                << responses'[Len(responses')].o.body >>
         /\ ~status_dic'.status
         /\ fetch_ret'.returned /\ fetch_ret'.json.none
         /\ result'.ret = Ret_None
    ELSE UNCHANGED << ScreenScraper_url_txt, ScreenScraper_page_data_raw_txt >>

(***************************************************************************)
(* C12: the step that ends a fetch on a 200 body which fails to decode     *)
(* as it is and after each repair writes the request URL and the raw body  *)
(* to the two diagnostic files, sets the status flag false and returns     *)
(* null; no other step changes the two files.                              *)
(***************************************************************************)
C12_DiagnosticsOnlyOnDecodeFailure == [][DiagnosticsStep]_vars

\* The two files hold the URL and the raw body of an answer that carried
\* both repairable patterns.
C12_Witness ==
    /\ Body200({DEFECT_1, DEFECT_2})
    /\ entry.status_dic.status
    /\ ~status_dic.status
    /\ ScreenScraper_page_data_raw_txt = << LastResponse.o.body >>
    /\ ScreenScraper_url_txt # << >>

(***************************************************************************)
(* Metadata of a cached record.                                            *)
(***************************************************************************)
\* get_metadata returned the parsed metadata of the cached record.
MetadataReturned ==
    /\ result.op = "get_metadata"
    /\ result.raised = "None"
    /\ ~scraper_disabled

\* The positions of the entries whose key is v.
Matches(entries, key, v) == { i \in 1..Len(entries) : entries[i][key] = v }

Min(S) == CHOOSE x \in S : \A y \in S : x <= y

\* The entry a localized field resolves to: the first entry of the preferred
\* value, else the first entry of the earliest chain element that has one;
\* 0 when there is none.
ExpectedEntry(entries, key, preferred, chain) ==
    IF Matches(entries, key, preferred) # { }
    THEN Min(Matches(entries, key, preferred))
    ELSE LET js == { j \in 1..Len(chain) : Matches(entries, key, chain[j]) # { } }
         IN  IF js = { } THEN 0
             ELSE Min(Matches(entries, key, chain[Min(js)]))

\* The field whose entry list is in the record, "none" for a record without.
HasEntries(jeu_dic, field) ==
    /\ field \in DOMAIN jeu_dic
    /\ IF field = "genres"
       THEN jeu_dic.genres # << >> /\ "noms" \in DOMAIN jeu_dic.genres[1]
       ELSE TRUE

TitleEntry(jeu_dic) ==
    ExpectedEntry(jeu_dic.noms, "region", user_region, region_list)
DateEntry(jeu_dic) ==
    ExpectedEntry(jeu_dic.dates, "region", user_region, region_list)
GenreEntry(jeu_dic) ==
    ExpectedEntry(jeu_dic.genres[1].noms, "langue", user_language, language_list)
PlotEntry(jeu_dic) ==
    ExpectedEntry(jeu_dic.synopsis, "langue", user_language, language_list)

\* Title, genre name and synopsis resolve to the text of the expected entry.
TextOfExpectedEntry(jeu_dic) ==
    /\ (HasEntries(jeu_dic, "noms") /\ TitleEntry(jeu_dic) > 0)
         => result.ret.title = jeu_dic.noms[TitleEntry(jeu_dic)].text
    /\ (HasEntries(jeu_dic, "genres") /\ GenreEntry(jeu_dic) > 0)
         => result.ret.genre = jeu_dic.genres[1].noms[GenreEntry(jeu_dic)].text
    /\ (HasEntries(jeu_dic, "synopsis") /\ PlotEntry(jeu_dic) > 0)
         => result.ret.plot = jeu_dic.synopsis[PlotEntry(jeu_dic)].text

\* C13 (as stated): each localized field (title, date, genre name, synopsis)
\* resolves to the text of the first entry of the preferred region/language,
\* else to the text of the first entry of the earliest fallback-chain element
\* that has an entry.
C13_LocalizedText ==
    MetadataReturned =>
        LET jeu_dic == cache[cache_key]
        IN  /\ TextOfExpectedEntry(jeu_dic)
            /\ (HasEntries(jeu_dic, "dates") /\ DateEntry(jeu_dic) > 0)
                 => result.ret.year = jeu_dic.dates[DateEntry(jeu_dic)].text

\* C13 (amended): title, genre name (of the first genre) and synopsis resolve
\* to the text of the entry chosen as stated; the date resolves to the first
\* four characters of that entry's text.
C13_LocalizedTextYearPrefix ==
    MetadataReturned =>
        LET jeu_dic == cache[cache_key]
        IN  /\ TextOfExpectedEntry(jeu_dic)
            /\ (HasEntries(jeu_dic, "dates") /\ DateEntry(jeu_dic) > 0)
                 => LET text == jeu_dic.dates[DateEntry(jeu_dic)].text
                        n == IF Len(text) < 4 THEN Len(text) ELSE 4
                    IN  result.ret.year = [ k \in 1..n |-> text[k] ]

\* A date list << jp, eu >> read for the region "wor": the chain puts "eu"
\* before "jp", and the year is the first four characters of the second text.
C13_Witness ==
    /\ MetadataReturned
    /\ HasEntries(cache[cache_key], "dates")
    /\ Len(cache[cache_key].dates) = 2
    /\ cache[cache_key].dates[1].region = "jp"
    /\ cache[cache_key].dates[2].region = "eu"
    /\ user_region = "wor"
    /\ result.ret.year = << "1", "9", "9", "2" >>

\* get_metadata was called on a cached record, whatever came of it.
MetadataRequested ==
    /\ result.op = "get_metadata"
    /\ ~scraper_disabled
    /\ cache_key \in DOMAIN cache

\* C14: a localized field that is absent from the cached record, or that has
\* no entry of the preferred value or of any element of the fallback chain,
\* resolves to the field's default constant.
C14_DefaultWhenNoMatch ==
    MetadataRequested =>
        LET jeu_dic == cache[cache_key]
        IN  /\ result.raised = "None"
            /\ ("noms" \notin DOMAIN jeu_dic \/ TitleEntry(jeu_dic) = 0)
                 => result.ret.title = DEFAULT_META_TITLE
            /\ ("dates" \notin DOMAIN jeu_dic \/ DateEntry(jeu_dic) = 0)
                 => result.ret.year = DEFAULT_META_YEAR
            /\ (~HasEntries(jeu_dic, "genres") \/ GenreEntry(jeu_dic) = 0)
                 => result.ret.genre = DEFAULT_META_GENRE
            /\ ("synopsis" \notin DOMAIN jeu_dic \/ PlotEntry(jeu_dic) = 0)
                 => result.ret.plot = DEFAULT_META_PLOT

\* C15: the player count of a record whose text is the range '1-4' is the
\* upper bound '4'.
C15_UpperBoundOfRange ==
    (MetadataReturned /\ "joueurs" \in DOMAIN cache[cache_key]
                      /\ cache[cache_key].joueurs.text = << "1", "-", "4" >>)
        => result.ret.nplayers = << "4" >>

AssetsExtracted ==
    /\ result.op = "get_assets"
    /\ ~scraper_disabled
    /\ cache_key \in DOMAIN cache

\* The positions of the media entries whose type is in the table.
KnownMedia(medias) ==
    { i \in 1..Len(medias) : medias[i].type \in DOMAIN asset_name_mapping }

\* C17: the asset extractor returns one record per media entry whose type is
\* in the type-to-kind table, in the order of the media list, and none for
\* the other entries; the record's kind is the table's value for the type,
\* its URL is the entry's URL and its source format the entry's format.
C17_OneAssetPerKnownMedia ==
    AssetsExtracted =>
        LET medias == cache[cache_key].medias
            known == KnownMedia(medias)
        IN  /\ Len(result.all) = Cardinality(known)
            /\ \A i \in known :
                 LET asset_data ==
                       result.all[Cardinality({ j \in known : j <= i })]
                 IN  /\ asset_data.asset_ID = asset_name_mapping[medias[i].type]
                     /\ asset_data.url = medias[i].url
                     /\ asset_data.SS_format = medias[i].format

\* A manual, which the table does not have, before a box front: one record,
\* made from the second entry.
C17_Witness ==
    /\ AssetsExtracted
    /\ Len(cache[cache_key].medias) = 2
    /\ cache[cache_key].medias[1].type = "manuel"
    /\ cache[cache_key].medias[2].type = "box-2D"
    /\ Len(result.all) = 1
    /\ result.all[1].asset_ID = "ASSET_BOXFRONT_ID"
    /\ result.all[1].url = cache[cache_key].medias[2].url

(***************************************************************************)
(* Redaction.                                                              *)
(***************************************************************************)
CredentialKeys ==
    { "devid", "devpassword", "softname", "output", "ssid", "sspassword" }

\* The parameters of a URL that are not credentials, in order.
RECURSIVE OtherParams(_)
OtherParams(url) ==
    IF url = << >> THEN << >>
    ELSE IF url[1].k \in CredentialKeys \cup { "&", "http" }
         THEN OtherParams(Tail(url))
         ELSE << url[1] >> \o OtherParams(Tail(url))

\* C18: the redaction removes every occurrence of devid, devpassword,
\* softname, output, ssid and sspassword with its value, followed by '&' or at
\* the end of the URL, and keeps every other parameter unchanged.
C18_CredentialsRemoved ==
    the_url # NoURL =>
        /\ \A i \in 1..Len(clean_url) : clean_url[i].k \notin CredentialKeys
        /\ OtherParams(clean_url) = OtherParams(the_url)

(***************************************************************************)
(* The two rate limiters.                                                  *)
(***************************************************************************)
\* A step in which get_assets of the first object ran to its end.
GetAssetsCompletes ==
    /\ \E asset_info_id \in AssetIDs : get_assets(asset_info_id)
    /\ result'.waited

\* The time since the last return of get_assets, as the next call sees it.
SinceLastAssets == now - last_get_assets_call

\* C19: a get_assets call that runs to completion returns at least
\* TIME_WAIT_GET_ASSETS after the previous one returned, and on return
\* last_get_assets_call is the time of the return.  Between two such calls
\* the time since the last return is never counted short.
C19_AssetCallsSpaced ==
    [][IF GetAssetsCompletes
       THEN /\ now' - last_get_assets_call >= TIME_WAIT_GET_ASSETS
            /\ last_get_assets_call' = now'
       ELSE \/ SinceLastAssets' >= SinceLastAssets
            \/ SinceLastAssets' >= TIME_WAIT_GET_ASSETS]_vars

\* Two get_assets calls in a row, no second object: the first returned at
\* 1.2 s, the second at 2.4 s.
C19_Witness ==
    /\ result.op = "get_assets"
    /\ result.waited
    /\ calls = 2
    /\ ~peer.built
    /\ now = 2 * TIME_WAIT_GET_ASSETS
    /\ last_get_assets_call = now

\* C20: the two timestamps belong to one object and to one kind each.  No
\* operation of an object changes a timestamp of the other object; get_assets
\* leaves last_http_call, and a fetch leaves last_get_assets_call, as it is.
C20_TimersPerInstanceAndKind ==
    [][/\ (\E asset_info_id \in AssetIDs : get_assets(asset_info_id))
            => (last_http_call' = last_http_call /\ peer' = peer)
       /\ FetchStep
            => (last_get_assets_call' = last_get_assets_call /\ peer' = peer)
       /\ PeerStep
            => /\ last_http_call' = last_http_call
               /\ last_get_assets_call' = last_get_assets_call
       /\ peer_wait_for_asset_request
            => peer'.last_http_call = peer.last_http_call
       /\ (\E d \in HttpDurations : peer_retrieve_URL_as_JSON(d))
            => peer'.last_get_assets_call = peer.last_get_assets_call]_vars

\* The first object listed assets and returned at 1.2 s, then the second
\* object, built at 0, fetched and returned at 2.1 s: each of the four
\* timestamps has its own value.
C20_Witness ==
    /\ calls = 2
    /\ peer.built
    /\ last_http_call = 0
    /\ last_get_assets_call = TIME_WAIT_GET_ASSETS
    /\ peer.last_http_call = API_WAIT_MS + 100
    /\ peer.last_get_assets_call = 0

(***************************************************************************)
(* Metadata and assets after a search.                                     *)
(***************************************************************************)
\* A step of get_metadata or of get_assets.
AskStep ==
    \/ get_metadata
    \/ \E asset_info_id \in AssetIDs : get_assets(asset_info_id)

ChecksumFailure ==
    /\ ~scraper_disabled
    /\ \E rom_FN \in ROMs : get_candidates(rom_FN, "failed")

\* C22: when the checksums of an item cannot be computed, get_candidates sets
\* the status flag false with a message, returns None, issues no request and
\* writes nothing to the cache, and the scraper stays enabled; a get_candidates
\* of an enabled scraper that is given a descriptor without error and can
\* compute the checksums issues its request.
C22_ChecksumFailureIsLocal ==
    /\ [][ChecksumFailure =>
            /\ ~status_dic'.status
            /\ status_dic'.msg = CHECKSUM_MSG
            /\ result' = [ op |-> "get_candidates", ret |-> Ret_None ]
            /\ pc' = "idle"
            /\ requests' = << >>
            /\ cache' = cache
            /\ ~scraper_disabled']_vars
    /\ [](Done /\ ~entry.disabled /\ entry.checksums /\ entry.status_dic.status
            => requests # << >>)

\* The checksums of the item could not be computed: the descriptor reports
\* it, nothing was requested or stored, the scraper is enabled.
C22_Witness ==
    /\ Done
    /\ ~status_dic.status
    /\ status_dic.msg = CHECKSUM_MSG
    /\ entry.status_dic.status
    /\ result.ret = Ret_None
    /\ requests = << >>
    /\ cache = entry.cache
    /\ ~scraper_disabled

\* C23: while scraper_disabled is set, get_candidates returns None,
\* get_metadata returns the default metadata record and get_assets returns an
\* empty list; none of them issues a request, writes the cache or modifies
\* the status descriptor, and get_assets does not wait.
C23_DisabledDoesNothing ==
    [][(scraper_disabled /\ (AskStep \/ \E rom_FN \in ROMs, c \in ChecksumCases :
                                          get_candidates(rom_FN, c))) =>
        /\ pc' = "idle"
        /\ requests' = << >>
        /\ cache' = cache
        /\ status_dic' = status_dic
        /\ file_vars' = file_vars
        /\ last_get_assets_call' - now' = last_get_assets_call - now
        /\ result'.op = "get_candidates" => result'.ret = Ret_None
        /\ result'.op = "get_metadata" =>
             /\ result'.raised = "None"
             /\ result'.ret =
                  [ title |-> DEFAULT_META_TITLE, year |-> DEFAULT_META_YEAR,
                    genre |-> DEFAULT_META_GENRE,
                    developer |-> DEFAULT_META_DEVELOPER,
                    nplayers |-> DEFAULT_META_NPLAYERS,
                    esrb |-> DEFAULT_META_ESRB, plot |-> DEFAULT_META_PLOT ]
        /\ result'.op = "get_assets" =>
             /\ result'.raised = "None"
             /\ result'.ret = Ret_list(<< >>)]_vars

\* The record of the key has media, the scraper was disabled after the
\* search, and get_assets returned the empty list.
C23_Witness ==
    /\ scraper_disabled
    /\ result.op = "get_assets"
    /\ result.ret = Ret_list(<< >>)
    /\ cache_key \in DOMAIN cache
    /\ cache[cache_key].medias # << >>
    /\ calls = 2

(***************************************************************************)
(* Requests of one object in time                                          *)
(***************************************************************************)
\* C24: every request of a fetch, the retries after a 429 included, is sent
\* when the general wait has ended, that is API_WAIT_MS or more after
\* last_http_call; last_http_call is set to the time each request completes;
\* so two consecutive requests of the object are API_WAIT_MS or more apart.
\* The clock of a fetch has its origin at the last_http_call it starts with.
C24_RequestsSpaced ==
    /\ [][/\ send_request =>
                /\ now' - last_http_call >= API_WAIT_MS
                /\ requests'[Len(requests')].t = now'
                /\ requests'[Len(requests')].retry = Len(requests)
          /\ (\E o \in Outcomes, d \in HttpDurations : receive_response(o, d)) =>
                /\ last_http_call' = now'
                /\ responses'[Len(responses')].t = now']_vars
    /\ [](\A i \in 1..Len(requests) :
             /\ i <= Len(responses) => responses[i].t >= requests[i].t
             /\ i > 1 => /\ requests[i].t - responses[i - 1].t >= API_WAIT_MS
                         /\ requests[i].t - requests[i - 1].t >= API_WAIT_MS)
    /\ [](requests # << >> =>
             /\ requests[1].t >= API_WAIT_MS
             /\ last_http_call = IF responses = << >> THEN 0
                                 ELSE responses[Len(responses)].t)

\* The second fetch of the object sent its request API_WAIT_MS after
\* the last_http_call it started with, got a 429 and sent its retry.
C24_Witness ==
    /\ calls = 2
    /\ Len(requests) = 2
    /\ Len(responses) = 2
    /\ responses[1].o.code = 429
    /\ requests[1].t = API_WAIT_MS
    /\ requests[2].retry = 1

(***************************************************************************)
(* Reading the cached record                                               *)
(***************************************************************************)
\* The records of all_asset_list whose asset_ID is asset_info_id, in the
\* order of the list.
OfKind(all_asset_list, asset_info_id) ==
    SelectSeq(all_asset_list, LAMBDA a : a.asset_ID = asset_info_id)

\* C25: get_metadata and get_assets issue no request and leave the cache
\* and the key as they are; a call that follows a call of the same
\* operation on the same record with the same preferences returns what the
\* call before returned.
C25_ReadsAreRepeatable ==
    [][AskStep =>
        /\ cache' = cache
        /\ cache_key' = cache_key
        /\ requests' = << >>
        /\ responses' = << >>
        /\ last_http_call' = last_http_call
        /\ file_vars' = file_vars
        /\ pc' = "idle"
        /\ << user_region', user_language' >> = << user_region, user_language >>
        /\ (get_metadata /\ result.op = "get_metadata") => result' = result
        /\ \A asset_info_id \in AssetIDs :
              (/\ get_assets(asset_info_id)
               /\ result.op = "get_assets"
               /\ result.raised = "None") =>
                  /\ result'.raised = "None"
                  /\ result'.all = result.all
                  /\ result.ret = Ret_list(OfKind(result.all, asset_info_id))
                       => result'.ret = result.ret]_vars

\* The second call of the session returned a list of assets of the record
\* under the key, and the record is still there.
C25_Witness ==
    /\ calls = 2
    /\ result.op = "get_assets"
    /\ result.raised = "None"
    /\ result.ret.list # << >>
    /\ cache_key \in DOMAIN cache
    /\ requests = << >>

\* The kinds of asset the scraper knows.
AssetKinds == { asset_name_mapping[t] : t \in DOMAIN asset_name_mapping }

\* The places of all_asset_list that hold a record of the kind.
PlacesOfKind(all_asset_list, asset_info_id) ==
    { i \in 1..Len(all_asset_list) :
        all_asset_list[i].asset_ID = asset_info_id }

\* asset_list holds the records of all_asset_list at the places of the
\* kind, each once and in the order of all_asset_list.
ExactlyOfKind(asset_list, all_asset_list, asset_info_id) ==
    LET at == PlacesOfKind(all_asset_list, asset_info_id)
    IN  /\ Len(asset_list) = Cardinality(at)
        /\ \A i \in at :
             asset_list[Cardinality({ j \in at : j <= i })] = all_asset_list[i]

\* C26: the list get_assets returns for a kind holds exactly the records
\* of the extractor's list of that kind, in the order of the media list and
\* whatever their region; every record of the extractor's list is in the
\* list of one kind, so the lists of all kinds together are the extractor's
\* list.
C26_AssetsFilteredByKind ==
    /\ [][\A asset_info_id \in AssetIDs :
            (get_assets(asset_info_id) /\ result'.waited) =>
                /\ result'.all = _retrieve_all_assets(cache[cache_key], 1)
                /\ result'.ret.kind = "list"
                /\ ExactlyOfKind(result'.ret.list, result'.all,
                                 asset_info_id)]_vars
    /\ [](AssetsExtracted =>
            /\ \A k \in AssetKinds :
                 ExactlyOfKind(asset_list_of(result.all, k), result.all, k)
            /\ UNION { PlacesOfKind(result.all, k) : k \in AssetKinds }
                 = 1..Len(result.all))

\* The media list has the box fronts of two regions; get_assets returned
\* both, in the order of the media list.
C26_Witness ==
    /\ result.op = "get_assets"
    /\ result.waited
    /\ Len(result.all) = 2
    /\ Len(result.ret.list) = 2
    /\ result.ret.list[1].url_thumb.region = "jp"
    /\ result.ret.list[2].url_thumb.region = "wor"
    /\ cache[cache_key].medias[1].region = "jp"

(***************************************************************************)
(* A fetch that is retried                                                 *)
(***************************************************************************)
\* The fetch has returned and every answer before the last one was a 429.
OnlyRetriesBefore(k) ==
    /\ fetch_ret.returned
    /\ Len(responses) = k + 1
    /\ \A i \in 1..k : responses[i].o.code = 429

\* The body decodes, at once or after one of the two repairs.
Decodable(body) ==
    \/ body.defects = {}
    \/ body.defects = {DEFECT_1}
    \/ body.defects = {DEFECT_2}

\* C27: when k answers of 429, k <= RETRY_THRESHOLD, are followed by a 200
\* with a body that decodes, the fetch has made exactly k + 1 requests, one
\* per attempt 0..k, returns the decoded value and leaves the status
\* descriptor as it was; when they are followed by a 404 it returns null and
\* leaves the status descriptor as it was.
C27_RetryThenAnswer ==
    \A k \in 0..RETRY_THRESHOLD :
        OnlyRetriesBefore(k) =>
            LET last == responses[k + 1].o
            IN  /\ (last.code = 200 /\ last.has_body /\ Decodable(last.body)) =>
                     /\ Len(requests) = k + 1
                     /\ \A i \in 1..(k + 1) : requests[i].retry = i - 1
                     /\ fetch_ret.json =
                          [ none |-> FALSE, response |-> [ jeu |-> last.body.jeu ] ]
                     /\ status_dic = entry.status_dic
                /\ last.code = 404 =>
                     /\ Len(requests) = k + 1
                     /\ fetch_ret.json = None_json
                     /\ status_dic = entry.status_dic

\* RETRY_THRESHOLD answers of 429 and then a 200 with a body that needs a
\* repair: the fetch returned the decoded value.
C27_Witness ==
    /\ OnlyRetriesBefore(RETRY_THRESHOLD)
    /\ responses[RETRY_THRESHOLD + 1].o.code = 200
    /\ responses[RETRY_THRESHOLD + 1].o.body.defects = {DEFECT_2}
    /\ ~fetch_ret.json.none
    /\ Len(requests) = RETRY_THRESHOLD + 1
    /\ status_dic.status

(***************************************************************************)
(* The two repairs of a body                                               *)
(***************************************************************************)
\* C28: the two repairs are tried one after the other on the body as it was
\* received, never one on the result of the other: a 200 body decodes exactly
\* when it has no defect or when one repair alone removes every defect it
\* has, so a body with both trailing commas is not decoded and is written
\* to the diagnostic file as it was received; a
\* body without defect is returned by the first attempt, with no repair.
C28_RepairsIndependent ==
    (Fetched /\ LastResponse.o.code = 200 /\ LastResponse.o.has_body) =>
        LET raw == LastResponse.o.body
            first == raw.defects \ {DEFECT_1}
            second == raw.defects \ {DEFECT_2}
        IN  /\ fetch_ret.returned
            /\ fetch_ret.json.none
                 <=> (raw.defects # {} /\ first # {} /\ second # {})
            /\ ~fetch_ret.json.none =>
                 /\ fetch_ret.json.response.jeu = raw.jeu
                 /\ status_dic = entry.status_dic
            /\ fetch_ret.json.none =>
                 ScreenScraper_page_data_raw_txt = << raw >>
            /\ raw.defects = {} => decode_JSON(raw).passes = 0

\* A body with both trailing commas was received: each repair alone leaves
\* the other defect, and the fetch ended in the decoding error.
C28_Witness ==
    /\ Body200({DEFECT_1, DEFECT_2})
    /\ fetch_ret.json.none
    /\ ScreenScraper_page_data_raw_txt = << LastResponse.o.body >>
    /\ entry.status_dic.status

(***************************************************************************)
(* A status flag that is false on entry                                    *)
(***************************************************************************)
\* C29: no operation of the scraper sets the status flag to true, only the
\* caller's new descriptor does; a get_candidates of an enabled scraper
\* that is entered with the flag false ends with the flag false, returns
\* None and leaves the cache as it was, whatever the provider answers, and
\* it has issued its request when the checksums were there.
C29_FalseFlagStaysFalse ==
    /\ [][(~status_dic.status /\ status_dic'.status) => fresh_status_dic]_vars
    /\ [](Done /\ ~entry.disabled /\ ~entry.status_dic.status =>
            /\ ~status_dic.status
            /\ result.ret = Ret_None
            /\ cache = entry.cache
            /\ cache_writes = 0
            /\ entry.checksums <=> requests # << >>
            /\ entry.checksums => Len(responses) = Len(requests))

\* The call was entered with the flag false; the provider answered 200 with
\* a body that decodes, for a key that has no record: None was returned and
\* the key still has no record.
C29_Witness ==
    /\ Fetched
    /\ ~entry.disabled
    /\ ~entry.status_dic.status
    /\ Decoded200
    /\ ~fetch_ret.json.none
    /\ result.ret = Ret_None
    /\ cache_key \notin DOMAIN cache

(***************************************************************************)
(* Metadata of every cached record                                         *)
(***************************************************************************)
\* The field of the record is there and is an empty list.
EmptyList(jeu_dic, field) ==
    field \in DOMAIN jeu_dic /\ jeu_dic[field] = << >>

\* C30: for every record in the cache under the current key, get_metadata
\* does not abort and returns a record with the seven fields set; a name,
\* date, genre or synopsis list that is present and empty gives the default
\* of its field.
C30_SevenFieldsForEveryRecord ==
    MetadataRequested =>
        LET jeu_dic == cache[cache_key]
        IN  /\ result.raised = "None"
            /\ DOMAIN result.ret = { "title", "year", "genre", "developer",
                                     "nplayers", "esrb", "plot" }
            /\ EmptyList(jeu_dic, "noms") => result.ret.title = DEFAULT_META_TITLE
            /\ EmptyList(jeu_dic, "dates") => result.ret.year = DEFAULT_META_YEAR
            /\ EmptyList(jeu_dic, "genres") => result.ret.genre = DEFAULT_META_GENRE
            /\ EmptyList(jeu_dic, "synopsis") => result.ret.plot = DEFAULT_META_PLOT

====
